---- MODULE Spec2Model ----
(***************************************************************************)
(* FacePass: biometric matching and liveness-detection engine.             *)
(*                                                                         *)
(* Units.  Eye-aspect ratios and the three liveness scores are integers in *)
(* thousandths (0.25 is 250); the fused liveness confidence is in          *)
(* ten-thousandths (0.4 is 4000), so the weighted sums are exact.          *)
(***************************************************************************)
EXTENDS Integers, Sequences, FiniteSets, TLC

VARIABLES
    \* ---- SpoofDetector (face_processor.py / face_processor_cv.py)
    analyzer,        \* "dlib" or "cv": which SpoofDetector class was imported
    blink_counter,   \* self.blink_counter
    frame_counter,   \* self.frame_counter (dlib analyzer only)
    previous_ear,    \* self.previous_ear, NoneVal until the first EAR
    blinkRet,        \* what the last detect_blink call returned
    frames,          \* history: one entry per detect_blink call that had both eyes
    call,            \* the arguments of the last check_liveness call
    result,          \* what the last check_liveness call returned or raised
    \* ---- FaceProcessor / FaceProcessorCV: the gallery and the matcher
    strategy,             \* "dlib" (128 float64 embedding) or "cv" (132 float32 histograms)
    known_face_features,  \* self.known_face_features / self.known_face_encodings
    known_face_ids,       \* self.known_face_ids
    lastUsers,            \* history: the users argument of the last load_known_faces
    idCall,               \* history: the last identify_face call since that load
    match,                \* what that identify_face call returned
    \* ---- two threads on one FaceProcessorCV, statement by statement
    writer,               \* the thread inside load_known_faces
    reader,               \* the thread inside identify_face
    \* ---- main.py: the database and the requests being served
    users,                \* the rows of the users table, in id order
    faceFiles,            \* REGISTERED_FACES_DIR: for each employee id, what <id>.jpg shows
    pending,              \* how many register_user calls wait at await face_image.read(), by form fields
    response,             \* the last response sent
    served,               \* how many requests the server has taken up
    \* ---- /api/identify
    attendance,           \* the AttendanceRecord rows of today, oldest first
    session,              \* per client, the blink counters its own last frame left
    \* ---- compare_faces called on its own
    cmp                   \* the last compare_faces call: its arguments and what came back

liveVars == <<analyzer, blink_counter, frame_counter, previous_ear, blinkRet, frames, call, result>>

galVars == <<strategy, known_face_features, known_face_ids, lastUsers, idCall, match>>

concVars == <<writer, reader>>

appVars == <<users, faceFiles, pending, response, served>>

cmpVars == <<cmp>>

attVars == <<attendance, session>>

vars == <<liveVars, galVars, concVars, appVars, cmpVars, attVars>>

\* ------------------------------------------------------------------ bounds
\* detect_blink calls with both eyes that one history may hold
MaxFrames == 6
\* the same, in a history that also holds check_liveness calls
MaxLiveFrames == 4
\* entries in one users list handed to load_known_faces
MaxUsers == 2
\* register_user calls that may be suspended at once
MaxPending == 2
\* requests the server takes up in one run
MaxRequests == 3

\* ------------------------------------------------------------------ constants
NoneVal == -1
BLINK_THRESHOLD == 250
EYE_AR_CONSECUTIVE_FRAMES == 3
LBP_THRESHOLD == 4000
FailOpenScore == 1000
FailOpenConfidence == 10000
\* expected_size = 132 (face_processor_cv.py), len(encoding) == 128 (face_processor.py)
HandcraftedLen == 132
EmbeddingLen == 128
\* bytes per element: np.float32 and np.float64
Float32Size == 4
Float64Size == 8

Min(a, b) == IF a <= b THEN a ELSE b
Max(a, b) == IF a >= b THEN a ELSE b

\* ------------------------------------------------------------------ landmarks
\* One eye's landmark geometry, by the three distances calculate_eye_aspect_ratio
\* takes between its six points: A = |p2-p6|, B = |p3-p5|, C = |p1-p4|.
EyeOpen   == [A |-> 7, B |-> 7, C |-> 20]
EyeClosed == [A |-> 2, B |-> 2, C |-> 20]
EyeEdge   == [A |-> 5, B |-> 5, C |-> 20]

\* face_landmarks: the named point groups present, and the two eyes' geometry
Landmarks(groups, l, r) == [groups |-> groups, left_eye |-> l, right_eye |-> r]

BothEyes == {"left_eye", "right_eye", "chin"}

LandmarkInputs ==
    { Landmarks(BothEyes, EyeOpen, EyeOpen),        \* EAR 0.35
      Landmarks(BothEyes, EyeClosed, EyeClosed),    \* EAR 0.10
      Landmarks(BothEyes, EyeEdge, EyeEdge),        \* EAR 0.25, the threshold itself
      Landmarks({"left_eye", "chin"}, EyeOpen, EyeOpen),
      Landmarks({"chin"}, EyeOpen, EyeOpen),
      Landmarks({}, EyeOpen, EyeOpen) }             \* {}: no landmarks found

\* ear = (A + B) / (2.0 * C) if C > 0 else 0, in thousandths
calculate_eye_aspect_ratio(eye) ==
    IF eye.C > 0 THEN ((eye.A + eye.B) * 1000) \div (2 * eye.C) ELSE 0

HasBothEyes(lm) == "left_eye" \in lm.groups /\ "right_eye" \in lm.groups

\* ear = (left_ear + right_ear) / 2.0
AverageEar(lm) ==
    (calculate_eye_aspect_ratio(lm.left_eye) + calculate_eye_aspect_ratio(lm.right_eye)) \div 2

\* ------------------------------------------------------------------ detect_blink
\* The hysteresis step of detect_blink on the counters: fc is frame_counter,
\* bc is blink_counter.
BlinkStepShortRun(fc, bc, ear) ==
    IF ear < BLINK_THRESHOLD
    THEN [fc |-> fc + 1, bc |-> bc, detected |-> FALSE]
    ELSE IF fc >= EYE_AR_CONSECUTIVE_FRAMES - 1
         THEN [fc |-> 0, bc |-> bc + 1, detected |-> TRUE]
         ELSE [fc |-> 0, bc |-> bc, detected |-> FALSE]

BlinkStepNoReset(fc, bc, ear) ==
    IF ear < BLINK_THRESHOLD
    THEN [fc |-> fc + 1, bc |-> bc, detected |-> FALSE]
    ELSE IF fc >= EYE_AR_CONSECUTIVE_FRAMES
         THEN [fc |-> fc, bc |-> bc + 1, detected |-> TRUE]
         ELSE [fc |-> 0, bc |-> bc, detected |-> FALSE]

BlinkStep(fc, bc, ear) ==
    IF ear < BLINK_THRESHOLD
    THEN [fc |-> fc + 1, bc |-> bc, detected |-> FALSE]
    ELSE IF fc >= EYE_AR_CONSECUTIVE_FRAMES
         THEN [fc |-> 0, bc |-> bc + 1, detected |-> TRUE]
         ELSE [fc |-> 0, bc |-> bc, detected |-> FALSE]

\* detect_blink that takes a frame without both eyes for a frame with open eyes
DetectBlinkEffectMissingIsOpen(lm, keep) ==
    IF ~HasBothEyes(lm)
    THEN /\ blinkRet' = [detected |-> FALSE, ear |-> 0]
         /\ frame_counter' = 0
         /\ UNCHANGED <<blink_counter, previous_ear, frames>>
    ELSE LET ear == AverageEar(lm)
             s   == BlinkStep(frame_counter, blink_counter, ear)
         IN  /\ frame_counter' = s.fc
             /\ blink_counter' = s.bc
             /\ previous_ear' = ear
             /\ blinkRet' = [detected |-> s.detected, ear |-> ear]
             /\ frames' = IF keep
                          THEN Append(frames, [ear |-> ear, detected |-> s.detected,
                                               bc |-> s.bc, fc |-> s.fc])
                          ELSE frames

\* detect_blink as a state change; keep says whether the call is entered in the
\* history (the caller has then checked the frame bound).
DetectBlinkEffect(lm, keep) ==
    IF ~HasBothEyes(lm)
    THEN /\ blinkRet' = [detected |-> FALSE, ear |-> 0]
         /\ UNCHANGED <<blink_counter, frame_counter, previous_ear, frames>>
    ELSE LET ear == AverageEar(lm)
             s   == BlinkStep(frame_counter, blink_counter, ear)
         IN  /\ frame_counter' = s.fc
             /\ blink_counter' = s.bc
             /\ previous_ear' = ear
             /\ blinkRet' = [detected |-> s.detected, ear |-> ear]
             /\ frames' = IF keep
                          THEN Append(frames, [ear |-> ear, detected |-> s.detected,
                                               bc |-> s.bc, fc |-> s.fc])
                          ELSE frames

FrameRoom(lm, bound) == HasBothEyes(lm) => Len(frames) < bound

\* SpoofDetector.detect_blink(face_landmarks), called directly
DetectBlink(bound) ==
    /\ analyzer = "dlib"
    /\ \E lm \in LandmarkInputs :
         /\ FrameRoom(lm, bound)
         /\ DetectBlinkEffect(lm, TRUE)
    /\ UNCHANGED <<analyzer, call, result>>

\* ------------------------------------------------------------------ face crops
\* A face crop, by what the three scorers measure on it: size is the number of
\* array elements (0 for an empty crop), entropy the Shannon entropy of the 256-bin
\* LBP histogram in thousandths of a bit, bright the share of pixels above 240 in
\* thousandths, lapvar the variance of the Laplacian.
Crop(size, entropy, bright, lapvar) ==
    [size |-> size, entropy |-> entropy, bright |-> bright, lapvar |-> lapvar]

EmptyCrop   == Crop(0, 0, 0, 0)
SkinCrop    == Crop(30000, 6000, 0, 300)
ScreenCrop  == Crop(30000, 2000, 300, 50)
UniformCrop == Crop(30000, 0, 0, 0)

CropInputs == {EmptyCrop, SkinCrop, ScreenCrop, UniformCrop}

\* Which scorer, if any, meets a numeric failure on this call
Faults == {"none", "texture", "reflection", "blur"}

\* cv2.cvtColor and cv2.resize reject an empty array; any scorer can also fail
\* on its own arithmetic.
ScorerRaises(crop, fault, scorer) == crop.size = 0 \/ fault = scorer

\* texture_score = min(entropy / 8.0, 1.0)
analyze_texture_lbp(crop) == Min(crop.entropy \div 8, 1000)

\* reflection_score = 1.0 - bright_ratio * 10
analyze_reflectionUnclamped(crop) == 1000 - crop.bright * 10

\* reflection_score = 1.0 - min(bright_ratio * 10, 1.0)
analyze_reflection(crop) == 1000 - Min(crop.bright * 10, 1000)

\* blur_score = min(laplacian_var / 500, 1.0)
analyze_blur(crop) == Min((crop.lapvar * 1000) \div 500, 1000)

NoResult ==
    [kind |-> "none", is_live |-> FALSE, confidence |-> NoneVal,
     texture_score |-> NoneVal, reflection_score |-> NoneVal, blur_score |-> NoneVal,
     ear |-> NoneVal, blink_count |-> NoneVal, logged |-> FALSE]

Raised == [NoResult EXCEPT !.kind = "raise"]

\* The dict both early returns of the OpenCV-only check_liveness build; logged
\* says whether the call printed anything.
FailOpen(logged) ==
    [kind |-> "ok", is_live |-> TRUE, confidence |-> FailOpenConfidence,
     texture_score |-> FailOpenScore, reflection_score |-> FailOpenScore,
     blur_score |-> FailOpenScore,
     ear |-> NoneVal, blink_count |-> NoneVal, logged |-> logged]

\* face_processor_cv.SpoofDetector.check_liveness: the landmarks are ignored
CheckLivenessCV(crop, fault) ==
    IF crop.size = 0
    THEN FailOpen(FALSE)
    ELSE IF \/ ScorerRaises(crop, fault, "texture")
            \/ ScorerRaises(crop, fault, "reflection")
            \/ ScorerRaises(crop, fault, "blur")
         THEN FailOpen(TRUE)
         ELSE LET t == analyze_texture_lbp(crop)
                  r == analyze_reflection(crop)
                  b == analyze_blur(crop)
                  confidence == t * 4 + r * 3 + b * 3
              IN  [kind |-> "ok", is_live |-> confidence >= LBP_THRESHOLD,
                   confidence |-> confidence,
                   texture_score |-> t, reflection_score |-> r, blur_score |-> b,
                   ear |-> NoneVal, blink_count |-> NoneVal, logged |-> FALSE]

\* face_processor.SpoofDetector.check_liveness: no guard and no try; the scorers
\* run first, detect_blink only if the landmarks dict is non-empty.
DlibScorersRaise(crop, fault) ==
    ScorerRaises(crop, fault, "texture") \/ ScorerRaises(crop, fault, "reflection")

CheckLivenessDlibStrict(crop, fault, hasLandmarks, ear, blinks) ==
    IF DlibScorersRaise(crop, fault)
    THEN Raised
    ELSE LET t == analyze_texture_lbp(crop)
             r == analyze_reflection(crop)
             confidence == t * 6 + r * 4
         IN  [kind |-> "ok", is_live |-> confidence > LBP_THRESHOLD,
              confidence |-> confidence,
              texture_score |-> t, reflection_score |-> r, blur_score |-> NoneVal,
              ear |-> IF hasLandmarks THEN ear ELSE NoneVal,
              blink_count |-> IF hasLandmarks THEN blinks ELSE NoneVal,
              logged |-> FALSE]

CheckLivenessDlibBlinkBonus(crop, fault, hasLandmarks, ear, blinks) ==
    IF DlibScorersRaise(crop, fault)
    THEN Raised
    ELSE LET t == analyze_texture_lbp(crop)
             r == analyze_reflection(crop)
             confidence == t * 6 + r * 4 + (IF hasLandmarks THEN blinks * 1000 ELSE 0)
         IN  [kind |-> "ok", is_live |-> confidence >= LBP_THRESHOLD,
              confidence |-> confidence,
              texture_score |-> t, reflection_score |-> r, blur_score |-> NoneVal,
              ear |-> IF hasLandmarks THEN ear ELSE NoneVal,
              blink_count |-> IF hasLandmarks THEN blinks ELSE NoneVal,
              logged |-> FALSE]

CheckLivenessDlib(crop, fault, hasLandmarks, ear, blinks) ==
    IF DlibScorersRaise(crop, fault)
    THEN Raised
    ELSE LET t == analyze_texture_lbp(crop)
             r == analyze_reflection(crop)
             confidence == t * 6 + r * 4
         IN  [kind |-> "ok", is_live |-> confidence >= LBP_THRESHOLD,
              confidence |-> confidence,
              texture_score |-> t, reflection_score |-> r, blur_score |-> NoneVal,
              ear |-> IF hasLandmarks THEN ear ELSE NoneVal,
              blink_count |-> IF hasLandmarks THEN blinks ELSE NoneVal,
              logged |-> FALSE]

\* check_liveness(face_image, face_landmarks) of the imported class as a state
\* change: the dlib class calls detect_blink once its scorers have returned
CheckLivenessEffect(crop, lm, fault, keep) ==
    /\ call' = [crop |-> crop, fault |-> fault, landmarks |-> lm.groups # {},
                eyes |-> HasBothEyes(lm)]
    /\ IF analyzer = "cv"
       THEN /\ result' = CheckLivenessCV(crop, fault)
            /\ UNCHANGED <<blink_counter, frame_counter, previous_ear, blinkRet, frames>>
       ELSE IF DlibScorersRaise(crop, fault) \/ lm.groups = {}
       THEN /\ result' = CheckLivenessDlib(crop, fault, FALSE, NoneVal, NoneVal)
            /\ UNCHANGED <<blink_counter, frame_counter, previous_ear, blinkRet, frames>>
       ELSE /\ DetectBlinkEffect(lm, keep)
            /\ result' = CheckLivenessDlib(crop, fault, TRUE, blinkRet'.ear, blink_counter')

\* SpoofDetector.check_liveness(face_image, face_landmarks), called directly
CheckLiveness ==
    \E crop \in CropInputs, lm \in LandmarkInputs, fault \in Faults :
       /\ (analyzer = "dlib" /\ ~DlibScorersRaise(crop, fault)) => FrameRoom(lm, MaxLiveFrames)
       /\ CheckLivenessEffect(crop, lm, fault, TRUE)
       /\ UNCHANGED analyzer

\* a reset that clears blink_counter only
ResetBlinkCounterOnly ==
    /\ blink_counter' = 0
    /\ frames' = <<>>
    /\ UNCHANGED <<analyzer, frame_counter, previous_ear, blinkRet, call, result>>

\* SpoofDetector.reset(): the dlib class clears both counters, the OpenCV-only
\* class has only blink_counter. previous_ear is not touched.
Reset ==
    /\ blink_counter' = 0
    /\ frame_counter' = IF analyzer = "dlib" THEN 0 ELSE frame_counter
    /\ frames' = <<>>
    /\ UNCHANGED <<analyzer, previous_ear, blinkRet, call, result>>

NoCall == [crop |-> EmptyCrop, fault |-> "none", landmarks |-> FALSE, eyes |-> FALSE]

\* ------------------------------------------------------------------ encodings
\* A feature vector is a sequence of numbers. Handcrafted histogram values are in
\* thousandths, embedding components in hundredths.
\* A stored encoding is a byte buffer, held as its 4-byte words plus the 0..3
\* bytes left over: a float32 element is one word, a float64 element is two.
Bytes(words, extra) == [words |-> words, extra |-> extra]

NBytes(enc) == Float32Size * Len(enc.words) + enc.extra

WordBase == 4096

\* ndarray.tobytes() of a float32 array
ToBytes32(vec) == Bytes(vec, 0)

\* ndarray.tobytes() of a float64 array
ToBytes64(vec) ==
    Bytes([j \in 1..(2 * Len(vec)) |->
              IF j % 2 = 1 THEN vec[(j + 1) \div 2] % WordBase
                           ELSE vec[j \div 2] \div WordBase], 0)

\* np.frombuffer(buf, dtype): ValueError unless the byte count is a multiple of
\* the element size
FromBuffer32(enc) ==
    IF NBytes(enc) % Float32Size # 0
    THEN [ok |-> FALSE, vec |-> <<>>]
    ELSE [ok |-> TRUE, vec |-> enc.words]

FromBuffer64(enc) ==
    IF NBytes(enc) % Float64Size # 0
    THEN [ok |-> FALSE, vec |-> <<>>]
    ELSE [ok |-> TRUE,
          vec |-> [i \in 1..(Len(enc.words) \div 2) |->
                      enc.words[2 * i - 1] + WordBase * enc.words[2 * i]]]

\* the buffer read with the element type of the other class
FromBufferOtherDtype(st, enc) == IF st = "cv" THEN FromBuffer64(enc) ELSE FromBuffer32(enc)

FromBuffer(st, enc) == IF st = "cv" THEN FromBuffer32(enc) ELSE FromBuffer64(enc)

ExpectedLen(st) == IF st = "cv" THEN HandcraftedLen ELSE EmbeddingLen

\* a vector of length n that is a at position 1, b at position 2 and 0 elsewhere
Vec(n, a, b) == [i \in 1..n |-> IF i = 1 THEN a ELSE IF i = 2 THEN b ELSE 0]

\* user.get('face_encoding') is falsy for None and for b''
NoEncoding == Bytes(<<>>, 0)

\* ------------------------------------------------------------------ load_known_faces
\* the loop body with the descriptor appended ahead of the test of the length
LoadOneFeaturesFirst(st, user, gal) ==
    IF user.face_encoding = NoEncoding
    THEN gal
    ELSE LET d == FromBuffer(st, user.face_encoding)
         IN  IF ~d.ok THEN gal
             ELSE IF Len(d.vec) = ExpectedLen(st)
             THEN [features |-> Append(gal.features, d.vec), ids |-> Append(gal.ids, user.id)]
             ELSE [features |-> Append(gal.features, d.vec), ids |-> gal.ids]

\* the loop body without the test of the length
LoadOneAnyLength(st, user, gal) ==
    IF user.face_encoding = NoEncoding
    THEN gal
    ELSE LET d == FromBuffer(st, user.face_encoding)
         IN  IF d.ok
             THEN [features |-> Append(gal.features, d.vec), ids |-> Append(gal.ids, user.id)]
             ELSE gal

\* One pass of the loop body of load_known_faces: gal holds the two lists
LoadOne(st, user, gal) ==
    IF user.face_encoding = NoEncoding
    THEN gal
    ELSE LET d == FromBuffer(st, user.face_encoding)
         IN  IF d.ok /\ Len(d.vec) = ExpectedLen(st)
             THEN [features |-> Append(gal.features, d.vec), ids |-> Append(gal.ids, user.id)]
             ELSE gal

RECURSIVE LoadFrom(_, _, _, _)
LoadFrom(st, user_data, i, gal) ==
    IF i > Len(user_data) THEN gal
    ELSE LoadFrom(st, user_data, i + 1, LoadOne(st, user_data[i], gal))

EmptyGallery == [features |-> <<>>, ids |-> <<>>]

\* FaceProcessor.load_known_faces(user_data), start to end: both lists are cleared,
\* then the loop runs over user_data. old is the gallery the call finds.
LoadKnownFacesPatch(st, user_data, old) == LoadFrom(st, user_data, 1, old)

LoadKnownFaces(st, user_data, old) == LoadFrom(st, user_data, 1, EmptyGallery)

\* ------------------------------------------------------------------ extraction
\* An image: its height and width, the rectangles (top, right, bottom, left) the
\* face detector finds in it, and which face it shows.
Image(h, w, faces, face) == [h |-> h, w |-> w, faces |-> faces, face |-> face]

Rect(top, right, bottom, left) == [top |-> top, right |-> right, bottom |-> bottom, left |-> left]

NoRect == Rect(NoneVal, NoneVal, NoneVal, NoneVal)

NoVec == <<>>

\* f[lo] + ... + f[hi], halving the range
RECURSIVE SumRange(_, _, _)
SumRange(f, lo, hi) ==
    IF lo > hi THEN 0
    ELSE IF lo = hi THEN f[lo]
    ELSE LET mid == (lo + hi) \div 2
         IN  SumRange(f, lo, mid) + SumRange(f, mid + 1, hi)

SumTo(f, n) == SumRange(f, 1, n)

\* bins of the four histograms extract_face_features concatenates
LbpBins == 64
GrayBins == 32
HogBins == 18
HueBins == 18

Hist(n, a, b, c) ==
    [i \in 1..n |-> IF i = 1 THEN a ELSE IF i = 2 THEN b ELSE IF i = 3 THEN c ELSE 0]

\* what np.histogram counts over n bins in the crop of a face, in tenths of the
\* pixels; "u" is a crop of one colour, whose pixels all fall in one bin
Histogram(face, n) ==
    CASE face = "a" -> Hist(n, 6, 4, 0)
      [] face = "b" -> Hist(n, 4, 6, 0)
      [] face = "m" -> Hist(n, 5, 5, 0)
      [] face = "h" -> Hist(n, 1, 4, 5)
      [] face = "n" -> Hist(n, 5, 8, 7)
      [] face = "u" -> [i \in 1..n |-> IF i = n THEN 10 ELSE 0]
      [] OTHER      -> [i \in 1..n |-> IF i = 4 THEN 10 ELSE 0]

\* the orientation histogram is weighted by the Sobel magnitude, which is zero
\* at every pixel of a crop of one colour
GradientHistogram(face) ==
    IF face = "u" THEN [i \in 1..HogBins |-> 0] ELSE Histogram(face, HogBins)

\* hist /= (hist.sum() + 1e-7), in thousandths: a histogram without mass is
\* divided by 1e-7 and stays zero
Normalize(hist, total) ==
    [i \in 1..Len(hist) |-> IF total = 0 THEN 0 ELSE (hist[i] * 1000) \div total]

\* the descriptor each extractor computes for a face: for the OpenCV-only class
\* the LBP, gray, gradient-orientation and hue histograms, each normalised
HandcraftedOf(face) ==
    Normalize(Histogram(face, LbpBins), SumTo(Histogram(face, LbpBins), LbpBins))
        \o Normalize(Histogram(face, GrayBins), SumTo(Histogram(face, GrayBins), GrayBins))
        \o Normalize(GradientHistogram(face), SumTo(GradientHistogram(face), HogBins))
        \o Normalize(Histogram(face, HueBins), SumTo(Histogram(face, HueBins), HueBins))

EmbeddingOf(face) ==
    CASE face = "a" -> Vec(EmbeddingLen, 30, 0)
      [] face = "b" -> Vec(EmbeddingLen, 0, 30)
      [] face = "m" -> Vec(EmbeddingLen, 15, 15)
      [] face = "h" -> Vec(EmbeddingLen, 70, 30)
      [] face = "n" -> Vec(EmbeddingLen, 30, 10)
      [] OTHER      -> Vec(EmbeddingLen, 90, 90)

\* the rectangle extract_face_features keeps after clamping it to the image
Clamp(img, loc) ==
    Rect(Max(0, Min(loc.top, img.h - 1)), Max(0, Min(loc.right, img.w)),
         Max(0, Min(loc.bottom, img.h)), Max(0, Min(loc.left, img.w - 1)))

\* extract_face_features that gives up on an empty crop only
extract_face_featuresAnySize(img, loc) ==
    LET r == Clamp(img, loc)
    IN  IF r.bottom <= r.top \/ r.right <= r.left THEN NoVec
        ELSE HandcraftedOf(img.face)

\* FaceProcessorCV.extract_face_features: clamp the rectangle to the image, give
\* up (None) on an empty crop or one under 10 pixels either way
extract_face_features(img, loc) ==
    LET r == Clamp(img, loc)
    IN  IF r.bottom <= r.top \/ r.right <= r.left THEN NoVec
        ELSE IF r.bottom - r.top < 10 \/ r.right - r.left < 10 THEN NoVec
        ELSE HandcraftedOf(img.face)

\* encode_face(image, face_location) of either class. Without a location the
\* OpenCV-only class takes the first detected face and the dlib class lets
\* face_recognition detect; with one, face_recognition encodes that rectangle.
encode_face(st, img, loc) ==
    IF st = "cv"
    THEN IF loc = NoRect
         THEN IF img.faces = <<>> THEN NoVec ELSE extract_face_features(img, img.faces[1])
         ELSE extract_face_features(img, loc)
    ELSE IF loc = NoRect /\ img.faces = <<>> THEN NoVec ELSE EmbeddingOf(img.face)

\* ------------------------------------------------------------------ compare / identify
\* FACE_RECOGNITION_TOLERANCE = 0.5 as a fraction, and its square in the units of
\* a squared embedding distance (1e-4)
ToleranceNum == 1
ToleranceDen == 2
ToleranceSq == 2500

\* np.minimum(known, probe).sum() and np.minimum(known, known).sum()
Intersection(known, probe) ==
    SumTo([i \in 1..Len(known) |-> Min(known[i], probe[i])], Len(known))

\* The similarity compare_faces computes, intersection / (max_intersection + 1e-7),
\* kept as the pair (num, den) that stands for num / (den + 1e-7): the values are
\* whole thousandths, so 1e-7 is smaller than any difference between two products
\* and only breaks exact ties.
Similarity(known, probe) ==
    [num |-> Intersection(known, probe), den |-> Intersection(known, known)]

\* s > t for two such similarities
SimGreater(s, t) ==
    \/ s.num * t.den > t.num * s.den
    \/ s.num * t.den = t.num * s.den /\ s.num > t.num

\* s >= n/d for a similarity s and an exact fraction n/d > 0
SimAtLeast(s, n, d) == s.num * d > n * s.den

\* 0.0, the first best_similarity (also what a gallery vector of no mass scores)
SimZero == [num |-> 0, den |-> 0]

\* face_recognition.face_distance, squared: the sum of squared differences
DistanceSq(known, probe) ==
    SumTo([i \in 1..Len(known) |-> (known[i] - probe[i]) * (known[i] - probe[i])], Len(known))

\* what identify_face returns: None, or user_id with the score it was found at
\* (sim, distSq) and the 'confidence' and 'distance' of the dict. Under the
\* OpenCV-only class confidence is the similarity and distance a pair (num, den)
\* that stands for 1 - similarity = (num + 1e-7) / (den + 1e-7); under the dlib
\* class both are in ten-thousandths.
NoMatch ==
    [found |-> FALSE, user_id |-> NoneVal, sim |-> SimZero, distSq |-> NoneVal,
     confidence |-> NoneVal, distance |-> NoneVal]

\* 1 - s for a similarity s
OneMinus(s) == [num |-> s.den - s.num, den |-> s.den]

\* the integer part of the square root of n, between lo and hi
RECURSIVE SqrtIn(_, _, _)
SqrtIn(n, lo, hi) ==
    IF hi - lo <= 1 THEN lo
    ELSE LET mid == (lo + hi) \div 2
         IN  IF mid * mid <= n THEN SqrtIn(n, mid, hi) ELSE SqrtIn(n, lo, mid)

\* a distance in ten-thousandths from its square in units of 1e-4
DistanceOf(distSq) == SqrtIn(distSq * 10000, 0, 20000)

\* best_match_index = -1; best_similarity = 0.0
NoBest == [index |-> NoneVal, sim |-> SimZero]

\* the body of the loop of FaceProcessorCV.identify_face on entry k, which
\* scores s: best is (index, similarity)
ScanStepLastWins(best, k, s) ==
    IF ~SimGreater(best.sim, s) THEN [index |-> k, sim |-> s] ELSE best

ScanStep(best, k, s) ==
    IF SimGreater(s, best.sim) THEN [index |-> k, sim |-> s] ELSE best

RECURSIVE ScanFrom(_, _, _, _)
ScanFrom(features, probe, k, best) ==
    IF k > Len(features) THEN best
    ELSE ScanFrom(features, probe, k + 1,
                  ScanStep(best, k, Similarity(features[k], probe)))

\* the loop of FaceProcessorCV.identify_face
ScanCV(features, probe) == ScanFrom(features, probe, 1, NoBest)

\* the threshold test of FaceProcessorCV.identify_face on the scan's result
PickCVNoThreshold(best, ids) ==
    IF best.index >= 1
    THEN [found |-> TRUE, user_id |-> ids[best.index], sim |-> best.sim, distSq |-> NoneVal,
          confidence |-> best.sim, distance |-> OneMinus(best.sim)]
    ELSE NoMatch

PickCV(best, ids) ==
    IF best.index >= 1 /\ SimAtLeast(best.sim, ToleranceNum, ToleranceDen)
    THEN [found |-> TRUE, user_id |-> ids[best.index], sim |-> best.sim, distSq |-> NoneVal,
          confidence |-> best.sim, distance |-> OneMinus(best.sim)]
    ELSE NoMatch

\* the lines of FaceProcessorCV.identify_face after extraction
MatchCV(features, ids, probe) == PickCV(ScanCV(features, probe), ids)

\* np.argmin(distances): the first index of the smallest distance
ArgMin(dist) ==
    CHOOSE i \in 1..Len(dist) :
        /\ \A j \in 1..Len(dist) : dist[i] <= dist[j]
        /\ \A j \in 1..(i - 1) : dist[j] > dist[i]

\* the lines of FaceProcessor.identify_face after encode_face
\* face_recognition.face_distance(known_face_encodings, face_encoding), squared
RECURSIVE face_distance(_, _, _)
face_distance(encodings, probe, k) ==
    IF k > Len(encodings) THEN <<>>
    ELSE <<DistanceSq(encodings[k], probe)>> \o face_distance(encodings, probe, k + 1)

\* if best_distance <= config.FACE_RECOGNITION_TOLERANCE
\* confidence = max(0, 1 - (best_distance / config.FACE_RECOGNITION_TOLERANCE))
PickDlibUnclamped(id, d) ==
    IF d <= 4 * ToleranceSq
    THEN [found |-> TRUE, user_id |-> id, sim |-> SimZero, distSq |-> d,
          confidence |-> 10000 - (DistanceOf(d) * ToleranceDen) \div ToleranceNum,
          distance |-> DistanceOf(d)]
    ELSE NoMatch

PickDlib(id, d) ==
    IF d <= ToleranceSq
    THEN [found |-> TRUE, user_id |-> id, sim |-> SimZero, distSq |-> d,
          confidence |-> Max(0, 10000 - (DistanceOf(d) * ToleranceDen) \div ToleranceNum),
          distance |-> DistanceOf(d)]
    ELSE NoMatch

BestDlib(dist, ids, i) == PickDlib(ids[i], dist[i])

MatchDlib(encodings, ids, probe) ==
    IF encodings = <<>> THEN NoMatch
    ELSE LET dist == face_distance(encodings, probe, 1)
         IN  BestDlib(dist, ids, ArgMin(dist))

\* identify_face(image, face_location) of either class on a gallery: the match
\* and whether extraction was attempted
IdentifyNoGuard(st, features, ids, img, loc) ==
    LET probe == encode_face(st, img, loc)
    IN  IF probe = NoVec \/ features = <<>>
        THEN [match |-> NoMatch, extracted |-> TRUE]
        ELSE [match |-> IF st = "cv" THEN MatchCV(features, ids, probe)
                        ELSE MatchDlib(features, ids, probe),
              extracted |-> TRUE]

Identify(st, features, ids, img, loc) ==
    IF features = <<>>
    THEN [match |-> NoMatch, extracted |-> FALSE]
    ELSE LET probe == encode_face(st, img, loc)
         IN  IF probe = NoVec
             THEN [match |-> NoMatch, extracted |-> TRUE]
             ELSE [match |-> IF st = "cv" THEN MatchCV(features, ids, probe)
                             ELSE MatchDlib(features, ids, probe),
                   extracted |-> TRUE]

\* ------------------------------------------------------------------ gallery calls
FullRect == Rect(10, 90, 90, 10)
TinyRect == Rect(10, 15, 15, 10)
OutsideRect == Rect(120, 150, 150, 120)
\* rectangles that reach over the image's edge: 10 by 10 and 9 by 9 once clamped
BorderRect == Rect(90, 150, 150, 90)
SliverRect == Rect(91, 150, 150, 91)

Images ==
    { Image(100, 100, <<FullRect>>, f) : f \in {"a", "m", "h", "z", "u"} }
        \cup { Image(100, 100, <<>>, "a"),
               Image(100, 100, <<TinyRect>>, "a"),
               Image(100, 100, <<OutsideRect>>, "a"),
               Image(100, 100, <<BorderRect>>, "a"),
               Image(100, 100, <<SliverRect>>, "a") }

LocationsFor(img) == {NoRect, FullRect} \cup { img.faces[i] : i \in 1..Len(img.faces) }

\* encoding.tobytes() of the descriptor a strategy mints for a face
EncodingOf(st, face) ==
    IF st = "cv" THEN ToBytes32(HandcraftedOf(face)) ELSE ToBytes64(EmbeddingOf(face))

OtherStrategy(st) == IF st = "cv" THEN "dlib" ELSE "cv"

\* the stored encodings a users list may carry: the active strategy's descriptors
\* of two faces, one minted by the other strategy, a buffer with a stray byte,
\* and none
EncodingPool(st) ==
    { EncodingOf(st, "a"), EncodingOf(st, "b"), EncodingOf(OtherStrategy(st), "a"),
      Bytes(HandcraftedOf("a"), 1), NoEncoding }

UserIdBase == 100

UsersOf(encs) == [i \in 1..Len(encs) |-> [id |-> UserIdBase + i, face_encoding |-> encs[i]]]

UserLists(st) ==
    { UsersOf(encs) : encs \in UNION { [1..n -> EncodingPool(st)] : n \in 0..MaxUsers } }

\* probe is the descriptor extraction gives for the call's image and rectangle,
\* extracted whether the call got as far as extracting it
NoIdCall == [made |-> FALSE, probe |-> NoVec, extracted |-> FALSE, crop |-> NoRect]

\* the clamped rectangle extract_face_features crops for identify_face(img, loc):
\* of the rectangle given, else of the first detected face; none without either
\* and none in the dlib class, which hands the image to face_recognition
CropOf(st, img, loc) ==
    IF st # "cv" THEN NoRect
    ELSE IF loc # NoRect THEN Clamp(img, loc)
    ELSE IF img.faces = <<>> THEN NoRect
    ELSE Clamp(img, img.faces[1])

\* face_processor.load_known_faces(users)
LoadKnownFacesCall ==
    \E roster \in UserLists(strategy) :
       LET g == LoadKnownFaces(strategy, roster,
                               [features |-> known_face_features, ids |-> known_face_ids])
       IN  /\ known_face_features' = g.features
           /\ known_face_ids' = g.ids
           /\ lastUsers' = roster
           /\ idCall' = NoIdCall
           /\ match' = NoMatch
           /\ UNCHANGED strategy

\* face_processor.identify_face(image, face_location)
IdentifyFaceCall ==
    \E img \in Images :
       \E loc \in LocationsFor(img) :
          LET r == Identify(strategy, known_face_features, known_face_ids, img, loc)
          IN  /\ match' = r.match
              /\ idCall' = [made |-> TRUE, probe |-> encode_face(strategy, img, loc),
                            extracted |-> r.extracted,
                            crop |-> CropOf(strategy, img, loc)]
              /\ UNCHANGED <<strategy, known_face_features, known_face_ids, lastUsers>>

\* The fields FaceProcessor.__init__ sets
GalIdle ==
    /\ known_face_features = <<>>
    /\ known_face_ids = <<>>
    /\ lastUsers = <<>>
    /\ idCall = NoIdCall
    /\ match = NoMatch

\* ------------------------------------------------------------------ threads
\* load_known_faces and identify_face of FaceProcessorCV run by two threads that
\* may switch between any two statements. The gallery attributes name list
\* objects: load_known_faces binds fresh lists and then appends to them, and the
\* loop of identify_face walks the list object it found when the loop began.
WriterIdle == [pc |-> "idle", users |-> <<>>, i |-> 0]

ReaderIdle ==
    [pc |-> "idle", probe |-> NoVec, feat |-> <<>>, live |-> FALSE, k |-> 0,
     best |-> [index |-> NoneVal, sim |-> SimZero], legit |-> {}]

UserA == [id |-> UserIdBase + 1, face_encoding |-> EncodingOf("cv", "a")]
UserB == [id |-> UserIdBase + 2, face_encoding |-> EncodingOf("cv", "b")]

\* the rosters a reload may bring, and the face the reader is shown
ConcLists == { <<>>, <<UserB>>, <<UserA, UserB>>, <<UserB, UserA>> }

ConcProbes == { HandcraftedOf("a") }

Gallery == [features |-> known_face_features, ids |-> known_face_ids]

\* self.known_face_features = []
WClearFeatures ==
    /\ writer.pc = "idle"
    /\ \E roster \in ConcLists :
         /\ writer' = [pc |-> "clearIds", users |-> roster, i |-> 1]
         /\ reader' = IF reader.pc \in {"idle", "done", "raised"}
                      THEN [reader EXCEPT !.live = FALSE]
                      ELSE [reader EXCEPT !.live = FALSE,
                                          !.legit = @ \cup {LoadKnownFaces("cv", roster, Gallery)}]
    /\ known_face_features' = <<>>
    /\ UNCHANGED <<strategy, known_face_ids, lastUsers, idCall, match>>

\* self.known_face_ids = []
WClearIds ==
    /\ writer.pc = "clearIds"
    /\ known_face_ids' = <<>>
    /\ writer' = [writer EXCEPT !.pc = "loop"]
    /\ UNCHANGED <<strategy, known_face_features, lastUsers, idCall, match, reader>>

\* one pass of the loop up to self.known_face_features.append(features), or the
\* end of the loop
WAppendFeatures ==
    /\ writer.pc = "loop"
    /\ IF writer.i > Len(writer.users)
       THEN /\ writer' = WriterIdle
            /\ lastUsers' = writer.users
            /\ UNCHANGED <<known_face_features, reader>>
       ELSE LET g == LoadOne("cv", writer.users[writer.i], EmptyGallery)
            IN  IF g = EmptyGallery
                THEN /\ writer' = [writer EXCEPT !.i = @ + 1]
                     /\ UNCHANGED <<known_face_features, reader, lastUsers>>
                ELSE /\ known_face_features' = Append(known_face_features, g.features[1])
                     /\ reader' = IF reader.live
                                  THEN [reader EXCEPT !.feat = Append(@, g.features[1])]
                                  ELSE reader
                     /\ writer' = [writer EXCEPT !.pc = "appendId"]
                     /\ UNCHANGED lastUsers
    /\ UNCHANGED <<strategy, known_face_ids, idCall, match>>

\* self.known_face_ids.append(user['id'])
WAppendId ==
    /\ writer.pc = "appendId"
    /\ known_face_ids' = Append(known_face_ids, writer.users[writer.i].id)
    /\ writer' = [writer EXCEPT !.pc = "loop", !.i = @ + 1]
    /\ UNCHANGED <<strategy, known_face_features, lastUsers, idCall, match, reader>>

\* the complete galleries a call that starts now may answer from: the one in
\* place, or while a reload is under way the one it replaces and the one it builds
LegitNow ==
    IF writer.pc = "idle" THEN {Gallery}
    ELSE {LoadKnownFaces("cv", lastUsers, Gallery), LoadKnownFaces("cv", writer.users, Gallery)}

\* if not self.known_face_features: return None; then extraction
RCheckEmpty ==
    /\ reader.pc = "idle"
    /\ \E probe \in ConcProbes :
         IF known_face_features = <<>>
         THEN /\ reader' = [ReaderIdle EXCEPT !.pc = "done", !.probe = probe, !.legit = LegitNow]
              /\ match' = NoMatch
         ELSE /\ reader' = [ReaderIdle EXCEPT !.pc = "enter", !.probe = probe, !.legit = LegitNow]
              /\ UNCHANGED match
    /\ UNCHANGED <<strategy, known_face_features, known_face_ids, lastUsers, idCall, writer>>

\* for i, known_features in enumerate(self.known_face_features): the list is read
REnterLoop ==
    /\ reader.pc = "enter"
    /\ reader' = [reader EXCEPT !.pc = "scan", !.feat = known_face_features,
                                !.live = TRUE, !.k = 1]
    /\ UNCHANGED <<galVars, writer>>

\* one pass of the loop, or its end when the list has no element k
RScan ==
    /\ reader.pc = "scan"
    /\ IF reader.k > Len(reader.feat)
       THEN reader' = [reader EXCEPT !.pc = "pick"]
       ELSE LET sim == Similarity(reader.feat[reader.k], reader.probe)
            IN  reader' = [reader EXCEPT
                              !.k = @ + 1,
                              !.best = IF SimGreater(sim, reader.best.sim)
                                       THEN [index |-> reader.k, sim |-> sim] ELSE @]
    /\ UNCHANGED <<galVars, writer>>

\* the threshold test and self.known_face_ids[best_match_index]
RPick ==
    /\ reader.pc = "pick"
    /\ IF reader.best.index >= 1 /\ SimAtLeast(reader.best.sim, ToleranceNum, ToleranceDen)
       THEN IF reader.best.index <= Len(known_face_ids)
            THEN /\ match' = [found |-> TRUE, user_id |-> known_face_ids[reader.best.index],
                              sim |-> reader.best.sim, distSq |-> NoneVal,
                              confidence |-> reader.best.sim,
                              distance |-> OneMinus(reader.best.sim)]
                 /\ reader' = [reader EXCEPT !.pc = "done"]
            ELSE /\ match' = NoMatch
                 /\ reader' = [reader EXCEPT !.pc = "raised"]
       ELSE /\ match' = NoMatch
            /\ reader' = [reader EXCEPT !.pc = "done"]
    /\ UNCHANGED <<strategy, known_face_features, known_face_ids, lastUsers, idCall, writer>>

\* the call has returned (or raised IndexError); the thread may call again
RReturn ==
    /\ reader.pc \in {"done", "raised"}
    /\ reader' = ReaderIdle
    /\ UNCHANGED <<galVars, writer>>

ConcIdle ==
    /\ writer = WriterIdle
    /\ reader = ReaderIdle

\* ------------------------------------------------------------------ main.py
\* The registration and deactivation endpoints. A handler runs without
\* interruption except at its one await, the read of the upload, so
\* register_user is two steps: up to the await, and from it to the response.
EmployeeIds == {"E1", "E2"}

NoEmail == "none"

\* no <employee_id>.jpg in REGISTERED_FACES_DIR
NoFile == "none"

Emails == {NoEmail, "p@x"}

\* the form fields of a registration that matter here
Requests == [employee_id : EmployeeIds, email : Emails]

\* how many suspended register_user calls there are in all
RECURSIVE CountPending(_, _)
CountPending(p, rs) ==
    IF rs = {} THEN 0
    ELSE LET r == CHOOSE x \in rs : TRUE
         IN  p[r] + CountPending(p, rs \ {r})

OpenEyes == Landmarks(BothEyes, EyeOpen, EyeOpen)

NoLandmarks == Landmarks({}, EyeOpen, EyeOpen)

\* An upload: whether cv2.imdecode reads it, the image, the crop
\* extract_face_region cuts at its first rectangle, and the landmarks
\* face_recognition finds there
Upload(decoded, img, crop, lm) == [decoded |-> decoded, img |-> img, crop |-> crop, lm |-> lm]

Uploads ==
    { Upload(TRUE, Image(100, 100, <<FullRect>>, f), SkinCrop, OpenEyes) : f \in {"a", "m", "n"} }
        \cup { Upload(FALSE, Image(0, 0, <<>>, "a"), EmptyCrop, NoLandmarks),
               Upload(TRUE, Image(100, 100, <<>>, "a"), EmptyCrop, NoLandmarks),
               Upload(TRUE, Image(100, 100, <<FullRect, TinyRect>>, "a"), SkinCrop, OpenEyes),
               Upload(TRUE, Image(100, 100, <<FullRect>>, "a"), ScreenCrop, OpenEyes),
               Upload(TRUE, Image(100, 100, <<TinyRect>>, "a"), SkinCrop, NoLandmarks) }

\* FaceProcessorCV.get_face_landmarks returns {}; the dlib class asks face_recognition
get_face_landmarks(st, up) == IF st = "cv" THEN NoLandmarks ELSE up.lm

NoResponse ==
    [op |-> "none", status |-> 0, reason |-> "", employee_id |-> "", named |-> "",
     user_id |-> NoneVal, probe |-> NoVec]

Response(op, status, reason, eid) ==
    [NoResponse EXCEPT !.op = op, !.status = status, !.reason = reason, !.employee_id = eid]

\* db.query(User).filter(...).first() on a unique column: the row, if there is one
HasEmployeeId(eid) == \E i \in 1..Len(users) : users[i].employee_id = eid

HasEmail(email) == \E i \in 1..Len(users) : users[i].email = email

UserByEmployeeId(eid) == users[CHOOSE i \in 1..Len(users) : users[i].employee_id = eid]

HasUserId(id) == id \in 1..Len(users)

\* the users that have an encoding, active or not
RECURSIVE AllUserData(_, _)
AllUserData(rows, i) ==
    IF i > Len(rows) THEN <<>>
    ELSE IF rows[i].face_encoding # NoEncoding
         THEN <<[id |-> rows[i].id, face_encoding |-> rows[i].face_encoding]>>
                  \o AllUserData(rows, i + 1)
         ELSE AllUserData(rows, i + 1)

\* main.load_known_faces: the active users that have an encoding, in id order
RECURSIVE ActiveUserData(_, _)
ActiveUserData(rows, i) ==
    IF i > Len(rows) THEN <<>>
    ELSE IF rows[i].is_active /\ rows[i].face_encoding # NoEncoding
         THEN <<[id |-> rows[i].id, face_encoding |-> rows[i].face_encoding]>>
                  \o ActiveUserData(rows, i + 1)
         ELSE ActiveUserData(rows, i + 1)

ReloadGallery(rows) ==
    \E data \in { ActiveUserData(rows, 1) } :
       \E g \in { LoadKnownFaces(strategy, data, Gallery) } :
          /\ known_face_features' = g.features
          /\ known_face_ids' = g.ids
          /\ lastUsers' = data

\* existing_match['confidence'] >= 0.7: the similarity itself for the OpenCV-only
\* class, 1 - distance / tolerance for the dlib class (distance <= 0.15)
HighConfidenceLax(st, m) ==
    IF st = "cv" THEN SimAtLeast(m.sim, 19, 20) ELSE 400 * m.distSq <= ToleranceSq

HighConfidence(st, m) ==
    IF st = "cv" THEN SimAtLeast(m.sim, 7, 10) ELSE 100 * m.distSq <= 9 * ToleranceSq

\* register_user up to await face_image.read()
RegisterBegin ==
    \E req \in Requests :
       /\ CountPending(pending, Requests) < MaxPending
       /\ served < MaxRequests
       /\ served' = served + 1
       /\ IF HasEmployeeId(req.employee_id)
          THEN /\ response' = Response("register", 400, "employee_id_taken", req.employee_id)
               /\ UNCHANGED pending
          ELSE IF req.email # NoEmail /\ HasEmail(req.email)
          THEN /\ response' = Response("register", 400, "email_taken", req.employee_id)
               /\ UNCHANGED pending
          ELSE /\ pending' = [pending EXCEPT ![req] = @ + 1]
               /\ UNCHANGED response
       /\ UNCHANGED <<users, faceFiles>>

\* register_user with the face image saved before the duplicate-face check
RegisterOutcomeSaveFirst(req, live, probe, found) ==
    LET fail(r) == Response("register", 400, r, req.employee_id)
        clash   == \/ HasEmployeeId(req.employee_id)
                   \/ req.email # NoEmail /\ HasEmail(req.email)
        isDup   == /\ found.found
                   /\ HighConfidence(strategy, found)
                   /\ HasUserId(found.user_id)
    IN  IF live.kind = "raise"
        THEN [response |-> Response("register", 500, "error", req.employee_id),
              wrote |-> FALSE, created |-> FALSE]
        ELSE IF ~live.is_live
        THEN [response |-> fail("spoof"), wrote |-> FALSE, created |-> FALSE]
        ELSE IF probe = NoVec
        THEN [response |-> fail("no_encoding"), wrote |-> FALSE, created |-> FALSE]
        ELSE IF isDup
        THEN [response |-> [fail("duplicate_face") EXCEPT
                               !.named = users[found.user_id].employee_id,
                               !.probe = probe],
              wrote |-> TRUE, created |-> FALSE]
        ELSE IF clash
        THEN [response |-> [Response("register", 500, "integrity", req.employee_id)
                               EXCEPT !.probe = probe],
              wrote |-> TRUE, created |-> FALSE]
        ELSE [response |-> [Response("register", 200, "registered", req.employee_id)
                               EXCEPT !.user_id = Len(users) + 1, !.probe = probe],
              wrote |-> TRUE, created |-> TRUE]

\* register_user from the spoof verdict on: live is the check_liveness result,
\* probe the encoding, found what identify_face returned. The outcome says which
\* response goes out, whether the face file was written and whether the row was
\* committed.
RegisterOutcome(req, live, probe, found) ==
    LET fail(r) == Response("register", 400, r, req.employee_id)
        clash   == \/ HasEmployeeId(req.employee_id)
                   \/ req.email # NoEmail /\ HasEmail(req.email)
        isDup   == /\ found.found
                   /\ HighConfidence(strategy, found)
                   /\ HasUserId(found.user_id)
    IN  IF live.kind = "raise"
        THEN [response |-> Response("register", 500, "error", req.employee_id),
              wrote |-> FALSE, created |-> FALSE]
        ELSE IF ~live.is_live
        THEN [response |-> fail("spoof"), wrote |-> FALSE, created |-> FALSE]
        ELSE IF probe = NoVec
        THEN [response |-> fail("no_encoding"), wrote |-> FALSE, created |-> FALSE]
        ELSE IF isDup
        THEN [response |-> [fail("duplicate_face") EXCEPT
                               !.named = users[found.user_id].employee_id,
                               !.probe = probe],
              wrote |-> FALSE, created |-> FALSE]
        ELSE IF clash
        THEN [response |-> [Response("register", 500, "integrity", req.employee_id)
                               EXCEPT !.probe = probe],
              wrote |-> TRUE, created |-> FALSE]
        ELSE [response |-> [Response("register", 200, "registered", req.employee_id)
                               EXCEPT !.user_id = Len(users) + 1, !.probe = probe],
              wrote |-> TRUE, created |-> TRUE]

\* UserOperations.create_user: the row the commit adds
NewUser(req, probe) ==
    [id |-> Len(users) + 1, employee_id |-> req.employee_id, email |-> req.email,
     is_active |-> TRUE,
     face_encoding |-> IF strategy = "cv" THEN ToBytes32(probe) ELSE ToBytes64(probe)]

\* the rest of register_user, from the decoded upload to the response
RegisterResume ==
    \E req \in Requests, up \in Uploads :
       /\ pending[req] > 0
       /\ pending' = [pending EXCEPT ![req] = @ - 1]
       /\ UNCHANGED <<served, analyzer, strategy, idCall, match>>
       /\ LET rid == req.employee_id
          IN  IF ~up.decoded \/ Len(up.img.faces) # 1
              THEN /\ response' = Response("register", 400,
                                           IF ~up.decoded THEN "invalid_image"
                                           ELSE IF up.img.faces = <<>> THEN "no_face"
                                           ELSE "multiple_faces",
                                           rid)
                   /\ UNCHANGED <<blink_counter, frame_counter, previous_ear, blinkRet,
                                  frames, call, result>>
                   /\ UNCHANGED <<users, faceFiles, known_face_features, known_face_ids,
                                  lastUsers>>
              ELSE /\ CheckLivenessEffect(up.crop, get_face_landmarks(strategy, up),
                                          "none", FALSE)
                   /\ \E out \in { RegisterOutcome(
                                      req, result',
                                      encode_face(strategy, up.img, up.img.faces[1]),
                                      Identify(strategy, known_face_features, known_face_ids,
                                               up.img, up.img.faces[1]).match) } :
                         /\ response' = out.response
                         /\ faceFiles' = IF out.wrote
                                         THEN [faceFiles EXCEPT ![rid] = up.img.face]
                                         ELSE faceFiles
                         /\ IF out.created
                            THEN /\ users' = Append(users, NewUser(req, out.response.probe))
                                 /\ ReloadGallery(users')
                            ELSE UNCHANGED <<users, known_face_features, known_face_ids,
                                             lastUsers>>

\* deactivate_user(employee_id)
DeactivateUser ==
    \E eid \in EmployeeIds :
       /\ served < MaxRequests
       /\ served' = served + 1
       /\ IF ~HasEmployeeId(eid)
          THEN /\ response' = Response("deactivate", 404, "user_not_found", eid)
               /\ UNCHANGED <<users, known_face_features, known_face_ids, lastUsers>>
          ELSE LET u == UserByEmployeeId(eid)
               IN  /\ users' = [users EXCEPT ![u.id].is_active = FALSE]
                   /\ ReloadGallery(users')
                   /\ response' = [Response("deactivate", 200, "deactivated", eid)
                                      EXCEPT !.user_id = u.id]
       /\ UNCHANGED <<liveVars, strategy, idCall, match, faceFiles, pending>>

\* an empty database, no request in flight
AppIdle ==
    /\ users = <<>>
    /\ faceFiles = [e \in EmployeeIds |-> NoFile]
    /\ pending = [r \in Requests |-> 0]
    /\ response = NoResponse
    /\ served = 0

\* ------------------------------------------------------------------ /api/identify
\* who sends a frame: the handler keeps no session, every request of every
\* client goes to the one module-level face_processor and its spoof_detector
Clients == {"c1", "c2"}

\* the frames sent to /api/identify: an enrolled face with open and with closed
\* eyes, a replay of it on a screen, the other enrolled face, a stranger, an
\* image without a face and bytes that are no image
IdentifyUploads ==
    { Upload(TRUE, Image(100, 100, <<FullRect>>, "a"), SkinCrop, OpenEyes),
      Upload(TRUE, Image(100, 100, <<FullRect>>, "a"), SkinCrop,
             Landmarks(BothEyes, EyeClosed, EyeClosed)),
      Upload(TRUE, Image(100, 100, <<FullRect>>, "a"), ScreenCrop,
             Landmarks(BothEyes, EyeClosed, EyeClosed)),
      Upload(TRUE, Image(100, 100, <<FullRect>>, "b"), SkinCrop, OpenEyes),
      Upload(TRUE, Image(100, 100, <<FullRect>>, "z"), SkinCrop, OpenEyes),
      Upload(TRUE, Image(100, 100, <<>>, "a"), EmptyCrop, NoLandmarks),
      Upload(FALSE, Image(0, 0, <<>>, "a"), EmptyCrop, NoLandmarks) }

\* the users table of a server that has enrolled two people
EnrolledUsers(st) ==
    << [id |-> 1, employee_id |-> "E1", email |-> NoEmail, is_active |-> TRUE,
        face_encoding |-> EncodingOf(st, "a")],
       [id |-> 2, employee_id |-> "E2", email |-> NoEmail, is_active |-> TRUE,
        face_encoding |-> EncodingOf(st, "b")] >>

\* the latest row of the table, whoever it belongs to
get_today_recordAnyUser(rows, user_id, i) == i

\* AttendanceOperations.get_today_record: the index of the user's latest row, 0
\* when there is none
RECURSIVE get_today_record(_, _, _)
get_today_record(rows, user_id, i) ==
    IF i = 0 THEN 0
    ELSE IF rows[i].user_id = user_id THEN i
    ELSE get_today_record(rows, user_id, i - 1)

\* identify_face of main.py from the spoof verdict on, with the liveness gate
\* taken out
IdentifyOutcomeNoGate(live, up, elapsed) ==
    LET reply(status, reason) == Response("identify", status, reason, "")
        none(r) == [response |-> r, attendance |-> attendance,
                    idCall |-> NoIdCall, match |-> NoMatch]
    IN  IF live.kind = "raise" THEN none(reply(500, "error"))
        ELSE LET r == Identify(strategy, known_face_features, known_face_ids,
                               up.img, up.img.faces[1])
                 asked == [made |-> TRUE, extracted |-> r.extracted, crop |-> NoRect,
                           probe |-> encode_face(strategy, up.img, up.img.faces[1])]
                 today == get_today_record(attendance, r.match.user_id, Len(attendance))
                 out(reason, att) ==
                     [response |-> [reply(200, reason) EXCEPT !.user_id = r.match.user_id],
                      attendance |-> att, idCall |-> asked, match |-> r.match]
             IN  IF ~r.match.found
                 THEN [none(reply(200, "unrecognized")) EXCEPT !.idCall = asked]
                 ELSE IF ~HasUserId(r.match.user_id)
                 THEN out("user_not_found", attendance)
                 ELSE IF today = 0 \/ attendance[today].punched_out
                 THEN out("punch_in",
                          Append(attendance, [user_id |-> r.match.user_id,
                                              punched_out |-> FALSE]))
                 ELSE IF ~elapsed
                 THEN out("cooldown", attendance)
                 ELSE out("punch_out", [attendance EXCEPT ![today].punched_out = TRUE])

\* identify_face of main.py from the spoof verdict on: live is the
\* check_liveness result, elapsed whether the punch cooldown has run out. The
\* outcome is the response, the attendance table, and the identify_face call
\* made on the processor, if any.
IdentifyOutcome(live, up, elapsed) ==
    LET reply(status, reason) == Response("identify", status, reason, "")
        none(r) == [response |-> r, attendance |-> attendance,
                    idCall |-> NoIdCall, match |-> NoMatch]
    IN  IF live.kind = "raise" THEN none(reply(500, "error"))
        ELSE IF ~live.is_live THEN none(reply(200, "spoof"))
        ELSE LET r == Identify(strategy, known_face_features, known_face_ids,
                               up.img, up.img.faces[1])
                 asked == [made |-> TRUE, extracted |-> r.extracted, crop |-> NoRect,
                           probe |-> encode_face(strategy, up.img, up.img.faces[1])]
                 today == get_today_record(attendance, r.match.user_id, Len(attendance))
                 out(reason, att) ==
                     [response |-> [reply(200, reason) EXCEPT !.user_id = r.match.user_id],
                      attendance |-> att, idCall |-> asked, match |-> r.match]
             IN  IF ~r.match.found
                 THEN [none(reply(200, "unrecognized")) EXCEPT !.idCall = asked]
                 ELSE IF ~HasUserId(r.match.user_id)
                 THEN out("user_not_found", attendance)
                 ELSE IF today = 0 \/ attendance[today].punched_out
                 THEN out("punch_in",
                          Append(attendance, [user_id |-> r.match.user_id,
                                              punched_out |-> FALSE]))
                 ELSE IF ~elapsed
                 THEN out("cooldown", attendance)
                 ELSE out("punch_out", [attendance EXCEPT ![today].punched_out = TRUE])

\* POST /api/identify from a client, from the decoded upload to the response
\* (the handler's one await is the read of the upload, before anything else)
IdentifyRequest ==
    \E c \in Clients, up \in IdentifyUploads, elapsed \in BOOLEAN :
       /\ served < MaxRequests
       /\ served' = served + 1
       /\ UNCHANGED <<analyzer, strategy, known_face_features, known_face_ids, lastUsers,
                      users, faceFiles, pending>>
       /\ IF ~up.decoded \/ up.img.faces = <<>>
          THEN /\ response' = Response("identify", IF up.decoded THEN 200 ELSE 400,
                                       IF up.decoded THEN "no_face" ELSE "invalid_image", "")
               /\ idCall' = NoIdCall
               /\ match' = NoMatch
               /\ UNCHANGED <<blink_counter, frame_counter, previous_ear, blinkRet,
                              frames, call, result, attendance, session>>
          ELSE /\ CheckLivenessEffect(up.crop, get_face_landmarks(strategy, up),
                                      "none", FALSE)
               /\ session' = [session EXCEPT ![c] = [started |-> TRUE,
                                                     fc |-> frame_counter',
                                                     bc |-> blink_counter']]
               /\ \E out \in { IdentifyOutcome(result', up, elapsed) } :
                     /\ response' = out.response
                     /\ attendance' = out.attendance
                     /\ idCall' = out.idCall
                     /\ match' = out.match

\* no attendance row, no client has sent a frame
AttIdle ==
    /\ attendance = <<>>
    /\ session = [c \in Clients |-> [started |-> FALSE, fc |-> 0, bc |-> 0]]

\* ------------------------------------------------------------------ compare_faces
\* element i of v under numpy broadcasting: a one-element array is stretched
At(v, i) == IF Len(v) = 1 THEN v[1] ELSE v[i]

\* numpy combines two arrays of equal length, or stretches one that has a single
\* element; any other pair of lengths is a ValueError
Broadcastable(a, b) == Len(a) = Len(b) \/ Len(a) = 1 \/ Len(b) = 1

\* np.minimum(a, b).sum()
MinimumSum(a, b) ==
    SumTo([i \in 1..Max(Len(a), Len(b)) |-> Min(At(a, i), At(b, i))], Max(Len(a), Len(b)))

\* the sum of squares of a - b
SquaredDifference(a, b) ==
    SumTo([i \in 1..Max(Len(a), Len(b)) |->
              (At(a, i) - At(b, i)) * (At(a, i) - At(b, i))], Max(Len(a), Len(b)))

NoCompare ==
    [called |-> FALSE, known |-> NoVec, probe |-> NoVec, kind |-> "none",
     is_match |-> FALSE, score |-> NoneVal]

\* what a compare_faces call gave: kind is "ok" or "raise", score the second
\* element of the tuple returned
Compared(known, probe, kind, is_match, score) ==
    [called |-> TRUE, known |-> known, probe |-> probe, kind |-> kind,
     is_match |-> is_match, score |-> score]

\* FaceProcessorCV.compare_faces(known_features, face_features); NoVec is None
CompareCV(known, probe) ==
    IF known = NoVec \/ probe = NoVec
    THEN Compared(known, probe, "ok", FALSE, SimZero)
    ELSE IF ~Broadcastable(known, probe)
    THEN Compared(known, probe, "raise", FALSE, NoneVal)
    ELSE LET s == [num |-> MinimumSum(known, probe), den |-> MinimumSum(known, known)]
         IN  Compared(known, probe, "ok", SimAtLeast(s, ToleranceNum, ToleranceDen), s)

\* FaceProcessor.compare_faces(known_encoding, face_encoding): the score is the
\* confidence max(0, 1 - distance / tolerance), which is 0 beyond the tolerance
CompareDlib(known, probe) ==
    IF known = NoVec \/ probe = NoVec \/ ~Broadcastable(known, probe)
    THEN Compared(known, probe, "raise", FALSE, NoneVal)
    ELSE LET d == SquaredDifference(known, probe)
         IN  Compared(known, probe, "ok", d <= ToleranceSq,
                      IF d <= ToleranceSq
                      THEN Max(0, 10000 - (DistanceOf(d) * ToleranceDen) \div ToleranceNum)
                      ELSE 0)

\* the vectors compare_faces is handed: descriptors of the strategy, one of no
\* mass, None, and arrays of other lengths
CompareInputs(st) ==
    { NoVec, <<500>>, <<10>>, <<0>>, <<300, 700>> }
        \cup (IF st = "cv"
              THEN { HandcraftedOf(f) : f \in {"a", "b", "m"} }
                       \cup { [i \in 1..HandcraftedLen |-> 0] }
              ELSE { EmbeddingOf(f) : f \in {"a", "b", "m"} }
                       \cup { [i \in 1..EmbeddingLen |-> 0] })

\* face_processor.compare_faces(known, probe)
CompareFaces ==
    /\ \E known \in CompareInputs(strategy), probe \in CompareInputs(strategy) :
          cmp' = IF strategy = "cv" THEN CompareCV(known, probe)
                 ELSE CompareDlib(known, probe)
    /\ UNCHANGED <<galVars, liveVars, concVars, appVars, attVars>>

\* The fields SpoofDetector.__init__ sets
LiveIdle ==
    /\ blink_counter = 0
    /\ frame_counter = 0
    /\ previous_ear = NoneVal
    /\ blinkRet = [detected |-> FALSE, ear |-> 0]
    /\ frames = <<>>
    /\ call = NoCall
    /\ result = NoResult

\* ------------------------------------------------------------------ specifications
\* SpoofDetector.__init__ of either class
LiveInit ==
    /\ analyzer \in {"dlib", "cv"}
    /\ LiveIdle
    /\ strategy = analyzer
    /\ GalIdle
    /\ ConcIdle
    /\ AppIdle
    /\ cmp = NoCompare
    /\ AttIdle

LiveNext ==
    \/ DetectBlink(MaxLiveFrames) /\ UNCHANGED <<galVars, concVars, appVars, cmpVars, attVars>>
    \/ CheckLiveness /\ UNCHANGED <<galVars, concVars, appVars, cmpVars, attVars>>
    \/ Reset /\ UNCHANGED <<galVars, concVars, appVars, cmpVars, attVars>>

\* Every check_liveness, detect_blink and reset call on one analyzer
SpecLiveness == LiveInit /\ [][LiveNext]_vars

BlinkInit ==
    /\ analyzer = "dlib"
    /\ LiveIdle
    /\ strategy = analyzer
    /\ GalIdle
    /\ ConcIdle
    /\ AppIdle
    /\ cmp = NoCompare
    /\ AttIdle

BlinkNext ==
    \/ DetectBlink(MaxFrames) /\ UNCHANGED <<galVars, concVars, appVars, cmpVars, attVars>>
    \/ Reset /\ UNCHANGED <<galVars, concVars, appVars, cmpVars, attVars>>

\* Every sequence of detect_blink and reset calls on one dlib-based analyzer
SpecBlink == BlinkInit /\ [][BlinkNext]_vars

\* FaceProcessor.__init__ of either class
GalInit ==
    /\ strategy \in {"dlib", "cv"}
    /\ GalIdle
    /\ analyzer = strategy
    /\ LiveIdle
    /\ ConcIdle
    /\ AppIdle
    /\ cmp = NoCompare
    /\ AttIdle

GalNext ==
    \/ LoadKnownFacesCall /\ UNCHANGED <<liveVars, concVars, appVars, cmpVars, attVars>>
    \/ IdentifyFaceCall /\ UNCHANGED <<liveVars, concVars, appVars, cmpVars, attVars>>

\* Every sequence of load_known_faces and identify_face calls on one processor
SpecGallery == GalInit /\ [][GalNext]_vars

\* FaceProcessorCV after a first load_known_faces has completed
ConcInit ==
    /\ strategy = "cv"
    /\ analyzer = "cv"
    /\ LiveIdle
    /\ ConcIdle
    /\ AppIdle
    /\ cmp = NoCompare
    /\ AttIdle
    /\ \E roster \in ConcLists :
         /\ lastUsers = roster
         /\ known_face_features = LoadKnownFaces("cv", roster, EmptyGallery).features
         /\ known_face_ids = LoadKnownFaces("cv", roster, EmptyGallery).ids
    /\ idCall = NoIdCall
    /\ match = NoMatch

ConcNext ==
    \/ WClearFeatures /\ UNCHANGED <<liveVars, appVars, cmpVars, attVars>>
    \/ WClearIds /\ UNCHANGED <<liveVars, appVars, cmpVars, attVars>>
    \/ WAppendFeatures /\ UNCHANGED <<liveVars, appVars, cmpVars, attVars>>
    \/ WAppendId /\ UNCHANGED <<liveVars, appVars, cmpVars, attVars>>
    \/ RCheckEmpty /\ UNCHANGED <<liveVars, appVars, cmpVars, attVars>>
    \/ REnterLoop /\ UNCHANGED <<liveVars, appVars, cmpVars, attVars>>
    \/ RScan /\ UNCHANGED <<liveVars, appVars, cmpVars, attVars>>
    \/ RPick /\ UNCHANGED <<liveVars, appVars, cmpVars, attVars>>
    \/ RReturn /\ UNCHANGED <<liveVars, appVars, cmpVars, attVars>>

\* One thread reloading the gallery while another identifies
SpecConc == ConcInit /\ [][ConcNext]_vars

\* A processor of either class on which only compare_faces is called
CompareInit ==
    /\ strategy \in {"dlib", "cv"}
    /\ analyzer = strategy
    /\ LiveIdle
    /\ GalIdle
    /\ ConcIdle
    /\ AppIdle
    /\ cmp = NoCompare
    /\ AttIdle

CompareNext == CompareFaces

\* Every compare_faces call on vectors of equal and of different lengths
SpecCompare == CompareInit /\ [][CompareNext]_vars

\* The server after startup on a database with two enrolled users:
\* startup_event loads the gallery from it
IdentifyInit ==
    /\ strategy \in {"dlib", "cv"}
    /\ analyzer = strategy
    /\ LiveIdle
    /\ ConcIdle
    /\ users = EnrolledUsers(strategy)
    /\ lastUsers = ActiveUserData(users, 1)
    /\ \E g \in { LoadKnownFaces(strategy, lastUsers, EmptyGallery) } :
          /\ known_face_features = g.features
          /\ known_face_ids = g.ids
    /\ idCall = NoIdCall
    /\ match = NoMatch
    /\ faceFiles = [e \in EmployeeIds |-> IF e = "E1" THEN "a" ELSE "b"]
    /\ pending = [r \in Requests |-> 0]
    /\ response = NoResponse
    /\ served = 0
    /\ cmp = NoCompare
    /\ AttIdle

IdentifyNext == IdentifyRequest /\ UNCHANGED <<concVars, cmpVars>>

\* Every sequence of /api/identify requests of two clients
SpecIdentify == IdentifyInit /\ [][IdentifyNext]_vars

\* The server after startup on an empty database
Init ==
    /\ strategy \in {"dlib", "cv"}
    /\ analyzer = strategy
    /\ LiveIdle
    /\ GalIdle
    /\ ConcIdle
    /\ AppIdle
    /\ cmp = NoCompare
    /\ AttIdle

Next ==
    \/ RegisterBegin /\ UNCHANGED <<liveVars, galVars, concVars, cmpVars, attVars>>
    \/ RegisterResume /\ UNCHANGED <<concVars, cmpVars, attVars>>
    \/ DeactivateUser /\ UNCHANGED <<concVars, cmpVars, attVars>>

\* Every interleaving of registration and deactivation requests
Spec == Init /\ [][Next]_vars

\* ------------------------------------------------------------------ blink claims
Ears == [i \in 1..Len(frames) |-> frames[i].ear]

Below(i) == frames[i].ear < BLINK_THRESHOLD

\* the number of consecutive sub-threshold frames that end right before frame i
RunBefore(i) ==
    CHOOSE k \in 0..(i - 1) :
        /\ \A j \in (i - k)..(i - 1) : Below(j)
        /\ (i - k - 1 >= 1) => ~Below(i - k - 1)

\* blink_counter as it was before frame i
CountBefore(i) == IF i = 1 THEN 0 ELSE frames[i - 1].bc

BlinkFrame(i) == ~Below(i) /\ RunBefore(i) >= 3

\* what a SpoofDetector just constructed holds after the first i of these frames
RECURSIVE FreshRun(_, _)
FreshRun(ears, i) ==
    IF i = 0 THEN [fc |-> 0, bc |-> 0, detected |-> FALSE]
    ELSE LET before == FreshRun(ears, i - 1)
         IN  BlinkStep(before.fc, before.bc, ears[i])

\* C25: on the frames it is given after reset(), a SpoofDetector reports on
\* every frame the blink_detected value and the blink count that one just
\* constructed reports on the same frames, also when reset() came in the middle
\* of a run of sub-threshold frames.
C25_ResetIsFresh ==
    /\ \A i \in 1..Len(frames) :
          /\ frames[i].detected = FreshRun(Ears, i).detected
          /\ frames[i].bc = FreshRun(Ears, i).bc
          /\ frames[i].fc = FreshRun(Ears, i).fc
    /\ blink_counter = FreshRun(Ears, Len(frames)).bc
    /\ frame_counter = FreshRun(Ears, Len(frames)).fc

\* reset() has just been called after a frame with closed eyes
C25_Witness ==
    /\ frames = <<>>
    /\ previous_ear < BLINK_THRESHOLD
    /\ previous_ear # NoneVal
    /\ frame_counter = 0
    /\ blink_counter = 0

\* C1: over any sequence of detect_blink calls with both eyes, a blink is
\* registered (detected true, blink_counter up by exactly 1) exactly on a frame at
\* or above the threshold that follows at least 3 consecutive frames below it, and
\* the frame counter is 0 after it; [0.35,0.35,0.10,0.10,0.10,0.35] gives one
\* blink, on the sixth frame.
C1_BlinkAfterLongRun ==
    /\ \A i \in 1..Len(frames) :
          /\ frames[i].detected = BlinkFrame(i)
          /\ frames[i].bc = CountBefore(i) + (IF BlinkFrame(i) THEN 1 ELSE 0)
          /\ BlinkFrame(i) => frames[i].fc = 0
    /\ blink_counter = (IF frames = <<>> THEN 0 ELSE frames[Len(frames)].bc)
    /\ frames # <<>> /\ BlinkFrame(Len(frames)) => frame_counter = 0
    /\ Ears = <<350, 350, 100, 100, 100, 350>> =>
          /\ blink_counter = 1
          /\ [i \in 1..6 |-> frames[i].detected] = <<FALSE, FALSE, FALSE, FALSE, FALSE, TRUE>>

C1_Witness ==
    /\ Ears = <<350, 350, 100, 100, 100, 350>>
    /\ blink_counter = 1
    /\ blinkRet = [detected |-> TRUE, ear |-> 350]

\* C2: a run of only 1 or 2 sub-threshold frames closed by a frame at or above
\* the threshold registers no blink: detected is false on every frame of the run
\* and on the closing frame, blink_counter is what it was before the run, and the
\* frame counter is reset to 0; [0.35,0.10,0.35] leaves blink_counter at 0.
C2_ShortRunNoBlink ==
    /\ \A i \in 1..Len(frames) :
          (~Below(i) /\ RunBefore(i) \in {1, 2}) =>
              /\ \A j \in (i - RunBefore(i))..i :
                    /\ ~frames[j].detected
                    /\ frames[j].bc = CountBefore(i - RunBefore(i))
              /\ frames[i].fc = 0
              /\ i = Len(frames) => frame_counter = 0 /\ ~blinkRet.detected
    /\ Ears = <<350, 100, 350>> => blink_counter = 0

C2_Witness ==
    /\ Ears = <<350, 100, 350>>
    /\ blink_counter = 0
    /\ frame_counter = 0

\* ------------------------------------------------------------------ liveness claims
CheckLivenessCalled == result.kind # "none"

IsFailOpen(r) == r.kind = "ok" /\ r.is_live /\ r.confidence = FailOpenConfidence

\* C4: check_liveness on a zero-size crop returns is_live = true and
\* confidence = 1.0 and raises nothing, in the OpenCV-only analyzer and in the
\* dlib-based one.
C4_EmptyCropFailsOpen ==
    (CheckLivenessCalled /\ call.crop.size = 0) => IsFailOpen(result)

\* a scorer that check_liveness ran on the last call failed
ScorerFailed ==
    /\ CheckLivenessCalled
    /\ IF analyzer = "cv"
       THEN call.crop.size # 0 /\ call.fault # "none"
       ELSE call.crop.size # 0 /\ call.fault \in {"texture", "reflection"}

\* C5: when a scorer (texture, reflection, blur) fails inside check_liveness the
\* error is not propagated: the call returns is_live = true, confidence = 1.0.
C5_ScorerErrorFailsOpen == ScorerFailed => IsFailOpen(result)

\* the last check_liveness call ran all its scorers and none failed
NormalPath ==
    /\ CheckLivenessCalled
    /\ call.crop.size # 0
    /\ IF analyzer = "cv" THEN call.fault = "none"
       ELSE call.fault \notin {"texture", "reflection"}

\* C15: on the normal path the fused confidence is texture*0.6 + reflection*0.4
\* in the dlib-based analyzer, which has no blur score, and texture*0.4 +
\* reflection*0.3 + blur*0.3 in the OpenCV-only one, and is_live is true exactly
\* when that confidence is at or above LBP_THRESHOLD.
C15_FusedConfidence ==
    NormalPath =>
        /\ result.kind = "ok"
        /\ (analyzer = "dlib") <=> (result.blur_score = NoneVal)
        /\ result.confidence =
              IF analyzer = "dlib"
              THEN result.texture_score * 6 + result.reflection_score * 4
              ELSE result.texture_score * 4 + result.reflection_score * 3
                       + result.blur_score * 3
        /\ result.is_live <=> (result.confidence >= LBP_THRESHOLD)

\* a confidence that is the threshold itself counts as live
C15_Witness ==
    /\ NormalPath
    /\ result.confidence = LBP_THRESHOLD
    /\ result.is_live

\* C21: every result check_liveness returns for a non-empty crop has its texture,
\* reflection and blur score (where there is one) and its fused confidence in
\* [0, 1]; on the normal path texture is entropy / 8 clamped, reflection is
\* 1 - min(10 * bright ratio, 1) and blur is Laplacian variance / 500 clamped.
C21_ScoresInUnitRange ==
    (CheckLivenessCalled /\ result.kind = "ok" /\ call.crop.size # 0) =>
        /\ result.texture_score \in 0..1000
        /\ result.reflection_score \in 0..1000
        /\ result.blur_score \in (0..1000) \cup {NoneVal}
        /\ result.confidence \in 0..10000
        /\ NormalPath =>
              /\ result.texture_score = Min(call.crop.entropy \div 8, 1000)
              /\ result.reflection_score = 1000 - Min(10 * call.crop.bright, 1000)
              /\ (analyzer = "cv") =>
                    result.blur_score = Min(2 * call.crop.lapvar, 1000)

\* a crop with more than a tenth of its pixels bright: the reflection score is 0
C21_Witness ==
    /\ NormalPath
    /\ call.crop.bright > 100
    /\ result.reflection_score = 0
    /\ result.confidence > 0

\* C22: a check_liveness call that is given no landmarks, or landmarks without
\* "left_eye" or "right_eye", leaves blink_counter and frame_counter as they
\* were and reports no blink; where the scorers return, the verdict is still
\* produced, from texture and reflection (and blur) alone.
C22_NoEyesNoBlinkCounting ==
    [][ ((call' # call \/ result' # result) /\ ~call'.eyes) =>
           /\ blink_counter' = blink_counter
           /\ frame_counter' = frame_counter
           /\ previous_ear' = previous_ear
           /\ blinkRet' = blinkRet \/ ~blinkRet'.detected
           /\ result'.ear \in {NoneVal, 0}
           /\ (call'.crop.size # 0 /\ call'.fault = "none") =>
                 /\ result'.kind = "ok"
                 /\ result'.confidence =
                       IF analyzer = "dlib"
                       THEN result'.texture_score * 6 + result'.reflection_score * 4
                       ELSE result'.texture_score * 4 + result'.reflection_score * 3
                                + result'.blur_score * 3
                 /\ result'.is_live <=> (result'.confidence >= LBP_THRESHOLD)
      ]_vars

\* landmarks without an eye arrive in the middle of a run of closed-eye frames
C22_Witness ==
    /\ analyzer = "dlib"
    /\ call.landmarks
    /\ ~call.eyes
    /\ result.kind = "ok"
    /\ result.ear = 0
    /\ frame_counter > 0

\* C16: confidence and is_live of a check_liveness result are those the same
\* crop gets with no landmarks on an analyzer that has seen no frame, whatever
\* landmarks were passed and whatever the blink counters held.
C16_VerdictIgnoresBlinks ==
    (CheckLivenessCalled /\ result.kind = "ok") =>
        LET plain == IF analyzer = "cv"
                     THEN CheckLivenessCV(call.crop, call.fault)
                     ELSE CheckLivenessDlib(call.crop, call.fault, FALSE, NoneVal, NoneVal)
        IN  /\ result.confidence = plain.confidence
            /\ result.is_live = plain.is_live

\* a spoof-looking crop checked with landmarks right when a blink was counted
C16_Witness ==
    /\ analyzer = "dlib"
    /\ result.kind = "ok"
    /\ call.landmarks
    /\ result.blink_count = 1
    /\ blinkRet.detected
    /\ ~result.is_live

\* C20: every fail-open result, for an empty crop as for a scorer error, comes
\* with a logged signal.
C20_FailOpenIsLogged ==
    ( /\ CheckLivenessCalled
      /\ result.kind = "ok"
      /\ call.crop.size = 0 \/ call.fault # "none"
      /\ IsFailOpen(result)
      /\ analyzer = "cv" ) => result.logged

\* ------------------------------------------------------------------ reload claim
\* C3: an identify_face call that runs while load_known_faces reloads the gallery
\* answers from the complete gallery as it was before the reload or as it is
\* after it: never from an empty, partly rebuilt or misaligned gallery.
C3_ReloadAtomicForReaders ==
    reader.pc \in {"done", "raised"} =>
        /\ reader.pc = "done"
        /\ \E g \in reader.legit :
              LET m == MatchCV(g.features, g.ids, reader.probe)
              IN  /\ m.found = match.found
                  /\ m.found => m = match

\* ------------------------------------------------------------------ gallery claims
\* C6: identify_face on an empty gallery returns None whatever the image and
\* rectangle, under both strategies, without attempting extraction.
C6_EmptyGalleryNoMatch ==
    (idCall.made /\ known_face_features = <<>>) => (match = NoMatch /\ ~idCall.extracted)

C6_Witness ==
    /\ idCall.made
    /\ known_face_features = <<>>
    /\ idCall.probe # NoVec
    /\ lastUsers # <<>>
    /\ match = NoMatch

ItemSize(st) == IF st = "cv" THEN Float32Size ELSE Float64Size

\* the stored encoding is there and holds the strategy's number of elements
LoadableUser(u) ==
    /\ u.face_encoding # NoEncoding
    /\ NBytes(u.face_encoding) = ExpectedLen(strategy) * ItemSize(strategy)

\* C7: after load_known_faces(users) the gallery holds exactly the entries of
\* users whose encoding is present and deserializes to the expected length, in
\* input order, and nothing of the previous gallery; a wrong-length or
\* undeserializable entry is skipped and the entries after it still load.
C7_LoadReplacesWithValidEntries ==
    LET kept == SelectSeq(lastUsers, LoadableUser)
    IN  /\ known_face_ids = [i \in 1..Len(kept) |-> kept[i].id]
        /\ known_face_features =
              [i \in 1..Len(kept) |-> FromBuffer(strategy, kept[i].face_encoding).vec]
        /\ \A i \in 1..Len(known_face_features) :
              Len(known_face_features[i]) = ExpectedLen(strategy)

C7_Witness ==
    /\ Len(lastUsers) = 2
    /\ lastUsers[1].face_encoding = EncodingOf(OtherStrategy(strategy), "a")
    /\ lastUsers[2].face_encoding = EncodingOf(strategy, "b")
    /\ known_face_ids = <<UserIdBase + 2>>
    /\ idCall.made

\* C23: an encoding minted by the other strategy is never loaded: the loader
\* deserializes it without error to the wrong number of elements (66 float64
\* from a handcrafted encoding, 256 float32 from an embedding) and skips it,
\* and every entry of the active strategy in the same list is loaded.
C23_OtherStrategySkipped ==
    \A i \in 1..Len(lastUsers) :
       LET enc == lastUsers[i].face_encoding
           d   == FromBuffer(strategy, enc)
       IN  /\ enc \in { EncodingOf(OtherStrategy(strategy), f) : f \in {"a", "b"} }
                 => /\ lastUsers[i].id \notin { known_face_ids[k] : k \in 1..Len(known_face_ids) }
                    /\ d.ok
                    /\ Len(d.vec) = IF strategy = "cv"
                                    THEN (EmbeddingLen * Float64Size) \div Float32Size
                                    ELSE (HandcraftedLen * Float32Size) \div Float64Size
                    /\ Len(d.vec) # ExpectedLen(strategy)
           /\ enc \in { EncodingOf(strategy, f) : f \in {"a", "b"} }
                 => \E k \in 1..Len(known_face_ids) :
                       /\ known_face_ids[k] = lastUsers[i].id
                       /\ known_face_features[k] = d.vec

C23_Witness ==
    /\ strategy = "dlib"
    /\ Len(lastUsers) = 2
    /\ lastUsers[1].face_encoding = EncodingOf("cv", "a")
    /\ lastUsers[2].face_encoding = EncodingOf("dlib", "a")
    /\ known_face_ids = <<UserIdBase + 2>>
    /\ known_face_features = <<EmbeddingOf("a")>>

\* C24: between calls the identity list and the descriptor list are equally
\* long, position i of both comes from one user of the list loaded last, every
\* descriptor has the active strategy's length, and so has every probe
\* identify_face compares with them; a match names an identity of the list.
C24_GalleryListsAligned ==
    /\ Len(known_face_ids) = Len(known_face_features)
    /\ \A i \in 1..Len(known_face_features) :
          /\ Len(known_face_features[i]) = ExpectedLen(strategy)
          /\ \E j \in 1..Len(lastUsers) :
                /\ lastUsers[j].id = known_face_ids[i]
                /\ ToBytes32(known_face_features[i]) = lastUsers[j].face_encoding
                      \/ ToBytes64(known_face_features[i]) = lastUsers[j].face_encoding
          /\ (idCall.made /\ idCall.probe # NoVec)
                => Len(idCall.probe) = Len(known_face_features[i])
    /\ match.found => \E i \in 1..Len(known_face_ids) : known_face_ids[i] = match.user_id

C24_Witness ==
    /\ Len(lastUsers) = 2
    /\ lastUsers[1].face_encoding = Bytes(HandcraftedOf("a"), 1)
    /\ lastUsers[2].face_encoding = EncodingOf(strategy, "b")
    /\ known_face_ids = <<UserIdBase + 2>>
    /\ Len(known_face_features) = 1
    /\ match.found
    /\ match.user_id = UserIdBase + 2

\* ------------------------------------------------------------------ extraction claims
BlockSum(v, first, n) == SumRange(v, first, first + n - 1)

\* C13: every descriptor extract_face_features returns has 132 components, the
\* LBP, gray, gradient-orientation and hue histograms in that order, and each
\* of the four sums to 1, also for a crop of one colour.
C13_HistogramsSumToOne ==
    (idCall.made /\ strategy = "cv" /\ idCall.probe # NoVec)
    => /\ Len(idCall.probe) = HandcraftedLen
       /\ BlockSum(idCall.probe, 1, LbpBins) = 1000
       /\ BlockSum(idCall.probe, LbpBins + 1, GrayBins) = 1000
       /\ BlockSum(idCall.probe, LbpBins + GrayBins + 1, HogBins) = 1000
       /\ BlockSum(idCall.probe, LbpBins + GrayBins + HogBins + 1, HueBins) = 1000

\* C14: extract_face_features returns None exactly when the clamped crop is
\* empty or under 10 pixels high or wide, and otherwise a vector that is not
\* zero; on None identify_face returns no match.
C14_NoneIffCropTooSmall ==
    (idCall.made /\ strategy = "cv" /\ idCall.crop # NoRect)
    => LET r == idCall.crop
       IN  /\ idCall.probe = NoVec <=> (r.bottom - r.top < 10 \/ r.right - r.left < 10)
           /\ idCall.probe # NoVec => SumTo(idCall.probe, Len(idCall.probe)) > 0
           /\ idCall.probe = NoVec => match = NoMatch

C14_Witness ==
    /\ idCall.made
    /\ idCall.extracted
    /\ strategy = "cv"
    /\ idCall.crop = Clamp(Image(100, 100, <<>>, "a"), SliverRect)
    /\ idCall.probe = NoVec
    /\ match = NoMatch

\* ------------------------------------------------------------------ comparison claims
\* a similarity that is 1.0 but for the 1e-7 in its denominator
IsOne(s) == s.num = s.den /\ s.den > 0

\* C12: compare_faces(v, v) of the OpenCV-only class gives similarity 1.0 and
\* is_match true, for every feature vector v.
C12_SimilarityReflexive ==
    ( /\ cmp.called
      /\ strategy = "cv"
      /\ cmp.known # NoVec
      /\ Len(cmp.known) = HandcraftedLen
      /\ cmp.probe = cmp.known )
    => /\ cmp.kind = "ok"
       /\ IsOne(cmp.score)
       /\ cmp.is_match

\* C18: compare_faces on two vectors of different lengths rejects the pair: it
\* raises or reports no match with a zero score, and never returns a score
\* computed from them.
C18_LengthMismatchRejected ==
    ( /\ cmp.called
      /\ cmp.known # NoVec
      /\ cmp.probe # NoVec
      /\ Len(cmp.known) # Len(cmp.probe) )
    => \/ cmp.kind = "raise"
       \/ /\ cmp.kind = "ok"
          /\ ~cmp.is_match
          /\ IF strategy = "cv" THEN cmp.score.num = 0 ELSE cmp.score = 0

\* ------------------------------------------------------------------ attendance claims
\* C17: the blink count and consecutive-frame counter a client's frames produced
\* are not changed by the frames of another client: whenever a client has sent
\* a frame, the analyzer's counters are those its last frame left.
C17_BlinkStatePerSession ==
    \A c \in Clients :
       session[c].started =>
          /\ session[c].fc = frame_counter
          /\ session[c].bc = blink_counter

\* C19: an /api/identify request whose liveness verdict is not live changes no
\* attendance row and makes no identify_face call; a request that creates or
\* updates an attendance row, or answers with a punch, has passed liveness and
\* has an identity from the matcher, and the row is that identity's.
C19_LivenessGatesAttendance ==
    [][ served' = served + 1 =>
          LET checked == response'.reason \notin {"no_face", "invalid_image"}
              punched == response'.reason \in {"punch_in", "punch_out"}
          IN  /\ (checked /\ result'.kind = "ok" /\ ~result'.is_live)
                    => /\ attendance' = attendance
                       /\ ~idCall'.made
                       /\ ~punched
              /\ (attendance' # attendance \/ punched)
                    => /\ checked
                       /\ result'.kind = "ok"
                       /\ result'.is_live
                       /\ idCall'.made
                       /\ match'.found
                       /\ response'.user_id = match'.user_id
                       /\ \E i \in 1..Len(attendance') :
                             /\ attendance'[i].user_id = match'.user_id
                             /\ (i > Len(attendance) \/ attendance'[i] # attendance[i])
                             /\ \A j \in 1..Len(attendance) :
                                   j # i => attendance'[j] = attendance[j]
      ]_vars

C19_Witness ==
    /\ response.op = "identify"
    /\ response.reason = "spoof"
    /\ result.kind = "ok"
    /\ ~result.is_live
    /\ ~idCall.made
    /\ Len(attendance) = 1

EntryHigh(known, probe) ==
    IF strategy = "cv"
    THEN SimAtLeast(Similarity(known, probe), 7, 10)
    ELSE 100 * DistanceSq(known, probe) <= 9 * ToleranceSq

\* C8: when register_user has produced the probe encoding of its upload and some
\* entry of the gallery, as it stands before the request adds anything, matches
\* that probe with confidence >= 0.7, the request is rejected with the duplicate
\* face error naming an active user whose stored face matches the probe that
\* well, and neither the users table nor the gallery changes.
C8_EnrollmentGuard ==
    [][ \A req \in Requests :
          ( /\ pending'[req] < pending[req]
            /\ response'.probe # NoVec
            /\ \E i \in 1..Len(known_face_features) :
                  EntryHigh(known_face_features[i], response'.probe) )
          => /\ response'.status = 400
             /\ response'.reason = "duplicate_face"
             /\ \E k \in 1..Len(users) :
                   /\ users[k].employee_id = response'.named
                   /\ users[k].is_active
                   /\ EntryHigh(FromBuffer(strategy, users[k].face_encoding).vec,
                                response'.probe)
             /\ users' = users
             /\ known_face_features' = known_face_features
             /\ known_face_ids' = known_face_ids ]_vars

\* a second employee id was refused because its face is the first one's
C8_Witness ==
    /\ response.reason = "duplicate_face"
    /\ response.named # response.employee_id
    /\ response.named \in EmployeeIds
    /\ Len(users) = 1
    /\ Len(known_face_features) = 1
    /\ response.probe # FromBuffer(strategy, users[1].face_encoding).vec

\* entry i of the gallery clears the tolerance against the probe
Clears(i, probe) ==
    IF strategy = "cv"
    THEN SimAtLeast(Similarity(known_face_features[i], probe), ToleranceNum, ToleranceDen)
    ELSE DistanceSq(known_face_features[i], probe) <= ToleranceSq

\* C9: identify_face returns a match if and only if the gallery is non-empty,
\* extraction succeeded and the best score over the whole gallery clears the
\* tolerance (similarity >= tolerance handcrafted, distance <= tolerance
\* embedding); otherwise it returns None.
C9_MatchIffBestClears ==
    idCall.made =>
        /\ match.found <=>
              /\ known_face_features # <<>>
              /\ idCall.probe # NoVec
              /\ \E i \in 1..Len(known_face_features) : Clears(i, idCall.probe)
        /\ ~match.found => match = NoMatch

C9_Witness ==
    /\ idCall.made
    /\ match.found
    /\ Len(known_face_features) = 2
    /\ ~Clears(1, idCall.probe)

\* C11: a returned match has its confidence in [0,1]. Under the handcrafted
\* strategy the confidence is the similarity of the returned entry, which is
\* at most the entry's own mass over itself, and the distance is 1 - similarity;
\* under the embedding strategy the confidence is max(0, 1 - distance/tolerance)
\* for the distance of the returned entry.
C11_ConfidenceInUnitRange ==
    match.found =>
        \E i \in 1..Len(known_face_ids) :
            /\ match.user_id = known_face_ids[i]
            /\ IF strategy = "cv"
               THEN /\ match.confidence = Similarity(known_face_features[i], idCall.probe)
                    /\ 0 <= match.confidence.num
                    /\ match.confidence.num <= match.confidence.den
                    /\ match.distance = OneMinus(match.confidence)
                    /\ 0 <= match.distance.num /\ match.distance.num <= match.distance.den
               ELSE /\ match.distSq = DistanceSq(known_face_features[i], idCall.probe)
                    /\ match.distance * match.distance <= match.distSq * 10000
                    /\ match.distSq * 10000 < (match.distance + 1) * (match.distance + 1)
                    /\ match.confidence = Max(0, 10000 - 2 * match.distance)
                    /\ 0 <= match.confidence /\ match.confidence <= 10000

\* an embedding match at exactly the tolerance: 1 - distance/tolerance is 0
C11_Witness ==
    /\ match.found
    /\ strategy = "dlib"
    /\ match.distSq = ToleranceSq
    /\ match.confidence = 0
    /\ match.distance = 5000

\* entry i scores strictly better than entry j against the probe
Better(i, j, probe) ==
    IF strategy = "cv"
    THEN SimGreater(Similarity(known_face_features[i], probe),
                    Similarity(known_face_features[j], probe))
    ELSE DistanceSq(known_face_features[i], probe) < DistanceSq(known_face_features[j], probe)

\* C10: a returned match names the gallery entry with the best score over the
\* whole gallery, and of several entries tied for the best the first one.
C10_BestEntryFirstOnTies ==
    match.found =>
        \E i \in 1..Len(known_face_ids) :
            /\ match.user_id = known_face_ids[i]
            /\ \A j \in 1..Len(known_face_features) : ~Better(j, i, idCall.probe)
            /\ \A j \in 1..(i - 1) : Better(i, j, idCall.probe)

C10_Witness ==
    /\ match.found
    /\ Len(known_face_features) = 2
    /\ ~Better(1, 2, idCall.probe)
    /\ ~Better(2, 1, idCall.probe)
    /\ known_face_features[1] # known_face_features[2]
    /\ match.user_id = known_face_ids[1]

\* ------------------------------------------------------------------ registration claims
\* the reasons register_user gives for turning an upload down
ValidationReasons ==
    {"employee_id_taken", "email_taken", "invalid_image", "no_face", "multiple_faces",
     "spoof", "no_encoding", "duplicate_face"}

\* C27: when a register_user call resumes from the read of its upload and its
\* employee id has been taken meanwhile by a concurrent call, it creates no user,
\* it is answered 400 (with "Employee ID already registered" unless its upload is
\* turned down for a reason of its own), and the winner's <employee_id>.jpg is
\* left as it is.
C27_ConcurrentRegisterOneWins ==
    [][ \A req \in Requests :
          ( pending'[req] < pending[req] /\ HasEmployeeId(req.employee_id) )
          => /\ users' = users
             /\ response'.status = 400
             /\ response'.reason \in ValidationReasons
             /\ faceFiles' = faceFiles ]_vars

\* C28: a register_user call answered with one of the validation errors changes
\* neither the users table nor any file of REGISTERED_FACES_DIR nor the gallery.
C28_RejectedRegistrationChangesNothing ==
    [][ ( /\ \/ \E req \in Requests : pending'[req] < pending[req]
             \/ served' = served + 1 /\ pending' = pending /\ response'.op = "register"
          /\ response'.reason \in ValidationReasons )
        => /\ users' = users
           /\ faceFiles' = faceFiles
           /\ known_face_features' = known_face_features
           /\ known_face_ids' = known_face_ids ]_vars

\* a second employee id was turned down for a face that is already enrolled, and
\* has no file
C28_Witness ==
    /\ response.op = "register"
    /\ response.reason = "duplicate_face"
    /\ Len(users) = 1
    /\ users[1].employee_id # response.employee_id
    /\ faceFiles[response.employee_id] = NoFile
    /\ Len(known_face_ids) = 1

\* C29: between requests the gallery holds exactly the users that are active and
\* whose stored encoding load_known_faces accepts, each once and with its stored
\* descriptor; so identify_face, whatever single-face image it is given, returns no deactivated
\* user, and a user whose registration succeeded is in the gallery as long as it
\* is active.
C29_GalleryIsActiveUsers ==
    /\ { known_face_ids[i] : i \in 1..Len(known_face_ids) }
          = { users[k].id : k \in { j \in 1..Len(users) :
                                      users[j].is_active /\ LoadableUser(users[j]) } }
    /\ \A i \in 1..Len(known_face_ids), j \in 1..Len(known_face_ids) :
          known_face_ids[i] = known_face_ids[j] => i = j
    /\ \A i \in 1..Len(known_face_ids) :
          known_face_features[i]
             = FromBuffer(strategy, users[known_face_ids[i]].face_encoding).vec
    /\ \A img \in { up.img : up \in { u \in Uploads : Len(u.img.faces) = 1 } } :
          \E r \in { Identify(strategy, known_face_features, known_face_ids,
                              img, img.faces[1]) } :
             r.match.found => users[r.match.user_id].is_active
    /\ response.reason = "registered" =>
          ( users[response.user_id].is_active => 
               \E i \in 1..Len(known_face_ids) : known_face_ids[i] = response.user_id )

\* of two registered users one has been deactivated and the gallery holds the
\* other alone, though the deactivated user's face would still match its
\* stored descriptor
C29_Witness ==
    /\ response.reason = "deactivated"
    /\ Len(users) = 2
    /\ ~users[response.user_id].is_active
    /\ Len(known_face_ids) = 1
    /\ known_face_ids[1] # response.user_id
    /\ users[known_face_ids[1]].is_active

\* C30: the descriptor register_user stored with tobytes() is read back by
\* load_known_faces of the same class as a vector of the expected length equal
\* element for element to the one encode_face produced, so the gallery entry of
\* the new user is that vector and scores against the enrolling probe exactly as
\* the vector before storage does.
C30_StorageRoundTrip ==
    response.reason = "registered" =>
       \E d \in { FromBuffer(strategy, users[response.user_id].face_encoding) } :
          /\ d.ok
          /\ Len(d.vec) = ExpectedLen(strategy)
          /\ d.vec = response.probe
          /\ \E i \in 1..Len(known_face_ids) :
                /\ known_face_ids[i] = response.user_id
                /\ known_face_features[i] = response.probe
                /\ IF strategy = "cv"
                   THEN Similarity(known_face_features[i], response.probe)
                           = Similarity(response.probe, response.probe)
                   ELSE DistanceSq(known_face_features[i], response.probe)
                           = DistanceSq(response.probe, response.probe)

\* a second user has just been registered; its stored buffer differs from the
\* first user's
C30_Witness ==
    /\ response.reason = "registered"
    /\ response.user_id = 2
    /\ Len(known_face_ids) = 2
    /\ users[2].face_encoding # users[1].face_encoding
    /\ NBytes(users[2].face_encoding) = ExpectedLen(strategy) * ItemSize(strategy)

====
